---------------------------- MODULE Spec2Model ----------------------------
(***************************************************************************)
(* A model of lib/ClangImporter/ImportDecl.cpp: the importer that turns    *)
(* Clang declarations into Swift declarations.                             *)
(*                                                                         *)
(* The importer is single-threaded and recursive.  The model keeps the     *)
(* C++ call stack explicitly: every frame is one activation of a function  *)
(* of the file, and every action runs the top frame from one nested call   *)
(* to the next.  The caches (ImportedDecls, Subscripts), the arena of      *)
(* Swift declarations (heap) and the external-definition set are the       *)
(* importer's state; the set of Clang declarations that have a visible     *)
(* definition is the environment's.                                        *)
(***************************************************************************)
EXTENDS Integers, Sequences, FiniteSets, TLC

VARIABLES
  tu,             \* the translation unit being imported, with its setup (fixed by Init)
  Decl,           \* the Clang AST the importer reads: canonical declaration -> its properties
  SpecialTypedefNames, \* Impl.SpecialTypedefNames: typedefs that name a standard-library type
  defined,        \* Clang declarations whose definition is visible
  ImportedDecls,  \* Impl.ImportedDecls: canonical Clang decl -> Swift decl or null
  ImportedProtocolDecls, \* Impl.ImportedProtocolDecls: <<canonical method, context>> -> Decl or null
  Subscripts,     \* Impl.Subscripts: <<getter, setter>> -> SubscriptDecl or null
  heap,           \* the Swift declarations created so far (ASTContext arena)
  externalDecls,  \* declarations passed to SwiftContext.addedExternalDecl
  stack,          \* the call stack, innermost frame last
  ret,            \* the value returned by the frame that was popped last
  last            \* the client's record of its last completed importDecl call

vars == <<tu, Decl, SpecialTypedefNames, defined, ImportedDecls, ImportedProtocolDecls, Subscripts, heap,
          externalDecls, stack, ret, last>>

---------------------------------------------------------------------------
(* Bounds of the model. *)

\* Deepest call stack the model follows; a deeper one ends in an "overflow" frame.
MaxStack == 40

---------------------------------------------------------------------------
(* Values. *)

\* nullptr, as a Decl* or a DeclContext*.
NoDecl == 0

\* Impl.firstClangModule / getClangModuleForDecl(D): the module's DeclContext.
ModuleDC == -1

\* Impl.getSwiftModule(): the standard library's DeclContext.
SwiftModuleDC == -2

\* Impl.getNamedModule("ObjectiveC"): that library module's DeclContext.
ObjectiveCModuleDC == -3

\* A Clang type: a builtin, an untranslatable type, or a type naming a tag/ObjC decl.
FT(k, n) == [k |-> k, n |-> n]

\* A Swift type: a null Type(), a builtin, or the declared type of a heap declaration.
NoType == [n |-> "", id |-> 0]
BuiltinType(n) == [n |-> n, id |-> 0]
DeclaredType(id) == [n |-> "", id |-> id]

---------------------------------------------------------------------------
(* The Clang AST the importer reads (read-only).  Every declaration is     *)
(* named by its canonical declaration.                                     *)

D0 == [kind |-> "", parent |-> "TU", named |-> TRUE, members |-> <<>>,
       type |-> FT("none", ""), late |-> FALSE, union |-> FALSE, super |-> "",
       sel |-> "", inst |-> TRUE, family |-> "none", params |-> <<>>,
       value |-> 0, protocols |-> <<>>, cls |-> "", prop |-> "",
       getterM |-> "", setterM |-> "", ident |-> "", anon |-> FALSE,
       typedefName |-> "", interface |-> FALSE, anonymousStructOrUnion |-> FALSE]

Record(members, late) == [D0 EXCEPT !.kind = "record", !.members = members, !.late = late]
Field(parent, type) == [D0 EXCEPT !.kind = "field", !.parent = parent, !.type = type]
\* An enum: its enumerators, whether the name it goes by imports as a non-empty
\* identifier, and its integer type.  An enum without a declared name has anon
\* set, and typedefName is the typedef that names it ("" for none).
Enum(members, named, late) ==
  [D0 EXCEPT !.kind = "enum", !.members = members, !.named = named, !.late = late,
             !.type = FT("builtin", "int")]
EnumConstant(parent, value) ==
  [D0 EXCEPT !.kind = "enumconstant", !.parent = parent, !.value = value]
\* An Objective-C class: its superclass ("" for a root class) and its members.
Interface(super, members, late) ==
  [D0 EXCEPT !.kind = "interface", !.super = super, !.members = members, !.late = late]
\* An Objective-C method: selector, instance or class method, result and
\* parameter types.
Method(parent, sel, inst, result, params) ==
  [D0 EXCEPT !.kind = "method", !.parent = parent, !.sel = sel, !.inst = inst,
             !.type = result, !.params = params]

\* An Objective-C protocol: the protocols it refers to and its members.
Protocol(protocols, members, late) ==
  [D0 EXCEPT !.kind = "protocol", !.protocols = protocols, !.members = members,
             !.late = late]
\* A category of the class cls.
Category(cls, protocols, members) ==
  [D0 EXCEPT !.kind = "category", !.cls = cls, !.protocols = protocols,
             !.members = members]
\* A property: its name, type and accessor methods ("" for no setter).
Property(parent, ident, type, getterM, setterM) ==
  [D0 EXCEPT !.kind = "property", !.parent = parent, !.ident = ident, !.type = type,
             !.getterM = getterM, !.setterM = setterM]
\* A typedef: its name and its underlying type.
Typedef(parent, ident, type) ==
  [D0 EXCEPT !.kind = "typedef", !.parent = parent, !.ident = ident, !.type = type]
\* A method of the init family.
InitMethod(parent, sel, params) ==
  [Method(parent, sel, TRUE, FT("builtin", "id"), params) EXCEPT !.family = "init"]


ClangAST ==
  ( "Point"     :> Record(<<"Point.x", "Point.bad", "Point.self">>, FALSE) @@
    "Point.x"   :> Field("Point", FT("builtin", "int")) @@
    "Point.bad" :> Field("Point", FT("bad", "")) @@
    "Point.self" :> Field("Point", FT("tag", "Point")) @@
    "NS"        :> [D0 EXCEPT !.kind = "namespace"] @@
    "Outer"     :> Record(<<"Outer.a", "Outer.anon", "Outer.anonfield", "Outer.sa",
                            "Outer.bad", "Outer.b">>, FALSE) @@
    "Outer.a"   :> Field("Outer", FT("builtin", "int")) @@
    "Outer.anon" :> [Record(<<>>, FALSE) EXCEPT !.parent = "Outer", !.anon = TRUE,
                                                !.anonymousStructOrUnion = TRUE] @@
    "Outer.anonfield" :>
      [Field("Outer", FT("tag", "Outer.anon")) EXCEPT !.named = FALSE,
                                                      !.anonymousStructOrUnion = TRUE] @@
    "Outer.sa"  :> [D0 EXCEPT !.kind = "staticassert", !.parent = "Outer"] @@
    "Outer.bad" :> Field("Outer", FT("bad", "")) @@
    "Outer.b"   :> Field("Outer", FT("builtin", "float")) @@
    "Iface"     :> [Record(<<>>, FALSE) EXCEPT !.interface = TRUE] @@
    "Node"      :> Record(<<"Node.next">>, TRUE) @@
    "Node.next" :> Field("Node", FT("tag", "Node")) @@
    \* union Un;  ...  union Un { ... };
    "Un"        :> [Record(<<>>, TRUE) EXCEPT !.union = TRUE] @@
    "Color"     :> Enum(<<"Red", "Green">>, TRUE, FALSE) @@
    "Red"       :> EnumConstant("Color", 0) @@
    "Green"     :> EnumConstant("Color", 1) @@
    "Anon"      :> [Enum(<<"AnonA">>, FALSE, FALSE) EXCEPT !.anon = TRUE] @@
    "Mode"      :> [Enum(<<"ModeA">>, TRUE, FALSE) EXCEPT !.anon = TRUE,
                                                          !.typedefName = "Mode"] @@
    "ModeA"     :> EnumConstant("Mode", 2) @@
    "Hidden"    :> Enum(<<"HiddenA">>, FALSE, FALSE) @@
    "HiddenA"   :> EnumConstant("Hidden", 3) @@
    "TdHidden"  :> [Enum(<<>>, FALSE, FALSE) EXCEPT !.anon = TRUE,
                                                    !.typedefName = "TdHidden"] @@
    "AnonA"     :> EnumConstant("Anon", 5) @@
    "Lazy"      :> Enum(<<"LazyOne">>, TRUE, TRUE) @@
    "LazyOne"   :> EnumConstant("Lazy", 1) @@
    "Tmpl"      :> [D0 EXCEPT !.kind = "template"] @@
    \* @interface Container
    \*   - (id)objectAtIndexedSubscript:(NSInteger)idx;
    \*   - (void)setObject:(id)obj atIndexedSubscript:(NSInteger)idx;
    "Container" :> Interface("", <<"Container.get", "Container.set">>, FALSE) @@
    "Container.get" :> Method("Container", "objectAtIndexedSubscript:", TRUE,
                              FT("builtin", "id"), <<FT("builtin", "NSInteger")>>) @@
    "Container.set" :> Method("Container", "setObject:atIndexedSubscript:", TRUE,
                              FT("builtin", "void"), <<FT("builtin", "id"), FT("builtin", "NSInteger")>>) @@
    \* a keyed pair, the setter declared first
    "Dict"      :> Interface("", <<"Dict.set", "Dict.get">>, FALSE) @@
    "Dict.set"  :> Method("Dict", "setObject:forKeyedSubscript:", TRUE,
                          FT("builtin", "void"), <<FT("builtin", "id"), FT("builtin", "id")>>) @@
    "Dict.get"  :> Method("Dict", "objectForKeyedSubscript:", TRUE,
                          FT("builtin", "id"), <<FT("builtin", "id")>>) @@
    \* a setter without any getter
    "Sink"      :> Interface("", <<"Sink.item", "Sink.set", "Sink.count">>, FALSE) @@
    "Sink.item" :> Method("Sink", "itemAt:", TRUE, FT("builtin", "id"), <<FT("builtin", "NSInteger")>>) @@
    "Sink.set"  :> Method("Sink", "setObject:atIndexedSubscript:", TRUE,
                          FT("builtin", "void"), <<FT("builtin", "id"), FT("builtin", "NSInteger")>>) @@
    "Sink.count" :> Method("Sink", "count", TRUE, FT("builtin", "NSInteger"), <<>>) @@
    \* a setter whose getter cannot be imported (its result type has no translation)
    "Odd"       :> Interface("", <<"Odd.get", "Odd.set">>, FALSE) @@
    "Odd.get"   :> Method("Odd", "objectForKeyedSubscript:", TRUE,
                          FT("bad", ""), <<FT("builtin", "id")>>) @@
    "Odd.set"   :> Method("Odd", "setObject:forKeyedSubscript:", TRUE,
                          FT("builtin", "void"), <<FT("builtin", "id"), FT("builtin", "id")>>) @@
    \* a pair whose setter takes a value of another type than the getter returns
    "Skew"      :> Interface("", <<"Skew.get", "Skew.set">>, FALSE) @@
    "Skew.get"  :> Method("Skew", "objectAtIndexedSubscript:", TRUE,
                          FT("builtin", "id"), <<FT("builtin", "NSInteger")>>) @@
    "Skew.set"  :> Method("Skew", "setObject:atIndexedSubscript:", TRUE,
                          FT("builtin", "void"), <<FT("builtin", "int"), FT("builtin", "NSInteger")>>) @@
    \* a pair whose setter is indexed by another type than the getter
    "Slant"     :> Interface("", <<"Slant.set", "Slant.get">>, FALSE) @@
    "Slant.set" :> Method("Slant", "setObject:forKeyedSubscript:", TRUE,
                          FT("builtin", "void"), <<FT("builtin", "id"), FT("builtin", "NSInteger")>>) @@
    "Slant.get" :> Method("Slant", "objectForKeyedSubscript:", TRUE,
                          FT("builtin", "id"), <<FT("builtin", "id")>>) @@
    \* a subclass that overrides one method and inherits the indexed getter
    "Base"      :> Interface("", <<"Base.describe", "Base.get", "Base.make">>, FALSE) @@
    "Base.describe" :> Method("Base", "describe", TRUE, FT("builtin", "id"), <<>>) @@
    "Base.get"  :> Method("Base", "objectAtIndexedSubscript:", TRUE,
                          FT("builtin", "id"), <<FT("builtin", "NSInteger")>>) @@
    "Base.make" :> Method("Base", "make", FALSE, FT("builtin", "id"), <<>>) @@
    "Derived"   :> Interface("Base", <<"Derived.describe", "Derived.set", "Derived.make">>, FALSE) @@
    "Derived.describe" :> Method("Derived", "describe", TRUE, FT("builtin", "id"), <<>>) @@
    "Derived.set" :> Method("Derived", "setObject:atIndexedSubscript:", TRUE,
                            FT("builtin", "void"), <<FT("builtin", "id"), FT("builtin", "NSInteger")>>) @@
    \* an instance method named like the superclass's class method
    "Derived.make" :> Method("Derived", "make", TRUE, FT("builtin", "id"), <<>>) @@
    \* a class method that overrides the superclass's class method
    "Factory"   :> Interface("", <<"Factory.create">>, FALSE) @@
    "Factory.create" :> Method("Factory", "create", FALSE, FT("builtin", "id"), <<>>) @@
    "SubFactory" :> Interface("Factory", <<"SubFactory.create">>, FALSE) @@
    "SubFactory.create" :> Method("SubFactory", "create", FALSE, FT("builtin", "id"), <<>>) @@
    \* a class whose name has no translation, and its subclasses
    "Opaque"    :> [Interface("", <<>>, FALSE) EXCEPT !.named = FALSE] @@
    "Sub"       :> Interface("Opaque", <<"Sub.run">>, FALSE) @@
    "Sub.run"   :> Method("Sub", "run", TRUE, FT("builtin", "void"), <<>>) @@
    \* @class Later;  ...  @interface Later ... @end
    "Later"     :> Interface("", <<"Later.run">>, TRUE) @@
    "Later.run" :> Method("Later", "run", TRUE, FT("builtin", "void"), <<>>) @@
    \* a subclass and a category of the class whose definition comes later
    "Heir"      :> Interface("Later", <<>>, FALSE) @@
    "Later+Cat" :> Category("Later", <<>>, <<>>) @@
    "LateSub"   :> Interface("Opaque", <<>>, TRUE) @@
    \* @protocol Drawable - (void)draw; @end
    \* @interface Shape <Drawable> - (Shape *)scaled:(Shape *)by; @end
    \* @interface Circle : Shape - (void)draw; @end
    "Drawable"  :> Protocol(<<>>, <<"Drawable.draw">>, FALSE) @@
    "Drawable.draw" :> Method("Drawable", "draw", TRUE, FT("builtin", "void"), <<>>) @@
    "Shape"     :> [Interface("", <<"Shape.scaled">>, FALSE)
                      EXCEPT !.protocols = <<"Drawable">>] @@
    "Shape.scaled" :> Method("Shape", "scaled:", TRUE, FT("tag", "Shape"),
                             <<FT("tag", "Shape")>>) @@
    "Circle"    :> Interface("Shape", <<"Circle.draw">>, FALSE) @@
    "Circle.draw" :> Method("Circle", "draw", TRUE, FT("builtin", "void"), <<>>) @@
    \* @interface Square <Drawable> @end
    "Square"    :> [Interface("", <<>>, FALSE) EXCEPT !.protocols = <<"Drawable">>] @@
    \* @protocol Lazyp;  ...  @protocol Lazyp <Lazyp0> ... @end, and a class
    \* that conforms to it
    "Lazyp"     :> Protocol(<<>>, <<"Lazyp.m">>, TRUE) @@
    "Lazyp.m"   :> Method("Lazyp", "m", TRUE, FT("builtin", "void"), <<>>) @@
    "User"      :> [Interface("", <<>>, FALSE) EXCEPT !.protocols = <<"Lazyp">>] @@
    \* @interface SubUser : User  - (void)m;  @end
    "SubUser"   :> Interface("User", <<"SubUser.m">>, FALSE) @@
    "SubUser.m" :> Method("SubUser", "m", TRUE, FT("builtin", "void"), <<>>) @@
    \* a protocol whose name has no translation, a class that conforms to it
    \* and a subclass that implements its method
    "Ghost"     :> [Protocol(<<>>, <<"Ghost.fade">>, FALSE) EXCEPT !.named = FALSE] @@
    "Ghost.fade" :> Method("Ghost", "fade", TRUE, FT("builtin", "void"), <<>>) @@
    "Spook"     :> [Interface("", <<>>, FALSE) EXCEPT !.protocols = <<"Ghost">>] @@
    "SubSpook"  :> Interface("Spook", <<"SubSpook.fade">>, FALSE) @@
    "SubSpook.fade" :> Method("SubSpook", "fade", TRUE, FT("builtin", "void"), <<>>) @@
    \* init methods: a root class with alloc, a subclass that redeclares one
    "Root"      :> Interface("", <<"Root.alloc", "Root.init", "Root.initWithX">>, FALSE) @@
    "Root.alloc" :> [Method("Root", "alloc", FALSE, FT("builtin", "id"), <<>>)
                       EXCEPT !.family = "alloc"] @@
    "Root.init" :> InitMethod("Root", "init", <<>>) @@
    "Root.initWithX" :> InitMethod("Root", "initWithX:", <<FT("builtin", "int")>>) @@
    "Leaf"      :> Interface("Root", <<"Leaf.initWithX">>, FALSE) @@
    "Leaf.initWithX" :> InitMethod("Leaf", "initWithX:", <<FT("builtin", "int")>>) @@
    \* a category of the subclass that conforms to a protocol
    "Leaf+Ext"  :> Category("Leaf", <<"Maker">>, <<>>) @@
    \* @interface Twig : Leaf @end
    "Twig"      :> Interface("Leaf", <<>>, FALSE) @@
    \* a class without alloc
    "Bare"      :> Interface("", <<"Bare.init">>, FALSE) @@
    "Bare.init" :> InitMethod("Bare", "init", <<>>) @@
    \* a class whose alloc cannot be imported (its result type has no translation)
    "Hollow"    :> Interface("", <<"Hollow.alloc", "Hollow.init">>, FALSE) @@
    "Hollow.alloc" :> [Method("Hollow", "alloc", FALSE, FT("bad", ""), <<>>)
                         EXCEPT !.family = "alloc"] @@
    "Hollow.init" :> InitMethod("Hollow", "init", <<>>) @@
    \* a category that conforms to a protocol with an init method
    "Host"      :> Interface("", <<"Host.alloc">>, FALSE) @@
    "Host.alloc" :> [Method("Host", "alloc", FALSE, FT("builtin", "id"), <<>>)
                       EXCEPT !.family = "alloc"] @@
    "Maker"     :> Protocol(<<>>, <<"Maker.initWithZ">>, FALSE) @@
    "Maker.initWithZ" :> InitMethod("Maker", "initWithZ:", <<FT("builtin", "int")>>) @@
    "Host+Cat"  :> Category("Host", <<"Maker">>, <<"Cat.initWithY">>) @@
    "Cat.initWithY" :> InitMethod("Host+Cat", "initWithY:", <<FT("builtin", "int")>>) @@
    "Kid"       :> Interface("Host", <<>>, FALSE) @@
    \* @interface Widget  @property id title;  - (id)name; @property id name; @end
    "Widget"    :> Interface("", <<"Widget.title", "Widget.getTitle", "Widget.setTitle",
                                   "Widget.getName", "Widget.name">>, FALSE) @@
    "Widget.title" :> Property("Widget", "title", FT("builtin", "id"), "Widget.getTitle",
                               "Widget.setTitle") @@
    "Widget.getTitle" :> [Method("Widget", "title", TRUE, FT("builtin", "id"), <<>>)
                            EXCEPT !.prop = "Widget.title"] @@
    "Widget.setTitle" :> [Method("Widget", "setTitle:", TRUE, FT("builtin", "void"), <<FT("builtin", "id")>>)
                            EXCEPT !.prop = "Widget.title"] @@
    "Widget.getName" :> [Method("Widget", "name", TRUE, FT("builtin", "id"), <<>>)
                            EXCEPT !.prop = "Widget.name"] @@
    "Widget.name" :> Property("Widget", "name", FT("builtin", "id"), "Widget.getName", "") @@
    \* @interface SubWidget : Widget  @property id title;  @end
    "SubWidget" :> Interface("Widget", <<"SubWidget.title", "SubWidget.getTitle">>, FALSE) @@
    "SubWidget.title" :> Property("SubWidget", "title", FT("builtin", "id"),
                                  "SubWidget.getTitle", "") @@
    "SubWidget.getTitle" :> [Method("SubWidget", "title", TRUE, FT("builtin", "id"), <<>>)
                               EXCEPT !.prop = "SubWidget.title"] @@
    \* @interface Gadget  - (id)label;  @property int size;  @property <untranslatable> blob;
    \* @end   (the getter of size is declared with a type that has no translation)
    "Gadget"    :> Interface("", <<"Gadget.label", "Gadget.size", "Gadget.getSize",
                                   "Gadget.blob", "Gadget.getBlob">>, FALSE) @@
    "Gadget.label" :> Method("Gadget", "label", TRUE, FT("builtin", "id"), <<>>) @@
    "Gadget.size" :> Property("Gadget", "size", FT("builtin", "int"), "Gadget.getSize", "") @@
    "Gadget.getSize" :> [Method("Gadget", "size", TRUE, FT("bad", ""), <<>>)
                           EXCEPT !.prop = "Gadget.size"] @@
    "Gadget.blob" :> Property("Gadget", "blob", FT("bad", ""), "Gadget.getBlob", "") @@
    "Gadget.getBlob" :> [Method("Gadget", "blob", TRUE, FT("bad", ""), <<>>)
                           EXCEPT !.prop = "Gadget.blob"] @@
    \* @interface SubGadget : Gadget  @property id label;  @end
    "SubGadget" :> Interface("Gadget", <<"SubGadget.label", "SubGadget.getLabel">>, FALSE) @@
    "SubGadget.label" :> Property("SubGadget", "label", FT("builtin", "id"),
                                  "SubGadget.getLabel", "") @@
    "SubGadget.getLabel" :> [Method("SubGadget", "label", TRUE, FT("builtin", "id"), <<>>)
                               EXCEPT !.prop = "SubGadget.label"] @@
    \* @protocol Tagged  @property int tag;  @end
    "Tagged"    :> Protocol(<<>>, <<"Tagged.tag", "Tagged.getTag">>, FALSE) @@
    "Tagged.tag" :> Property("Tagged", "tag", FT("builtin", "int"), "Tagged.getTag", "") @@
    "Tagged.getTag" :> [Method("Tagged", "tag", TRUE, FT("builtin", "int"), <<>>)
                          EXCEPT !.prop = "Tagged.tag"] @@
    \* @interface Store
    \*   + (id)alloc;  - (id)initWithCapacity:(int)n;  + (id)init;
    \*   - (id)initialize __attribute__((objc_method_family(init)));
    \*   - (id)_init;  - (id)initX;  - (id)ini __attribute__((objc_method_family(init)));
    "Store"     :> Interface("", <<"Store.alloc", "Store.initWithCapacity", "Store.classInit",
                                   "Store.initialize", "Store._init", "Store.initX",
                                   "Store.ini">>, FALSE) @@
    "Store.alloc" :> [Method("Store", "alloc", FALSE, FT("builtin", "id"), <<>>)
                        EXCEPT !.family = "alloc"] @@
    "Store.initWithCapacity" :> InitMethod("Store", "initWithCapacity:", <<FT("builtin", "int")>>) @@
    "Store.classInit" :> [InitMethod("Store", "init", <<>>) EXCEPT !.inst = FALSE] @@
    "Store.initialize" :> InitMethod("Store", "initialize", <<>>) @@
    "Store._init" :> InitMethod("Store", "_init", <<>>) @@
    "Store.initX" :> InitMethod("Store", "initX", <<>>) @@
    "Store.ini" :> InitMethod("Store", "ini", <<>>) @@
    \* typedef unsigned int uint32_t;  typedef float Float32;  typedef signed char BOOL;
    \* typedef struct objc_selector *SEL;  typedef unsigned __int128 __uint128_t;
    \* typedef int myint;  typedef <untranslatable> badtd;
    \* struct Box { typedef float Float32; };
    "uint32_t"  :> Typedef("TU", "uint32_t", FT("builtin", "unsigned int")) @@
    "Float32"   :> Typedef("TU", "Float32", FT("builtin", "float")) @@
    "BOOL"      :> Typedef("TU", "BOOL", FT("builtin", "signed char")) @@
    "SEL"       :> Typedef("TU", "SEL", FT("builtin", "SEL")) @@
    "__uint128_t" :> Typedef("TU", "__uint128_t", FT("builtin", "unsigned __int128")) @@
    "myint"     :> Typedef("TU", "myint", FT("builtin", "int")) @@
    "badtd"     :> Typedef("TU", "badtd", FT("bad", "")) @@
    "Box"       :> Record(<<"Box.Float32">>, FALSE) @@
    "Box.Float32" :> Typedef("Box", "Float32", FT("builtin", "float")) @@
    \* typedefs that carry a well-known name without the well-known shape:
    \* typedef unsigned long uint32_t;  typedef int Float32;  typedef double Float64;
    \* typedef signed char BOOL;  (not compiled as Objective-C)
    "wide.uint32_t" :> Typedef("TU", "uint32_t", FT("builtin", "unsigned long")) @@
    "int.Float32" :> Typedef("TU", "Float32", FT("builtin", "int")) @@
    "c.BOOL"    :> Typedef("TU", "BOOL", FT("builtin", "signed char")) @@
    "char.SEL"  :> Typedef("TU", "SEL", FT("builtin", "char *")) @@
    \* typedef unsigned long SEL;
    "long.SEL"  :> Typedef("TU", "SEL", FT("builtin", "unsigned long")) )

Decls == DOMAIN ClangAST

\* The translation units the model imports from; each is imported on its own.
TUDecls ==
  ( "records" :> {"Point", "Point.x", "Point.bad", "Point.self", "NS"} @@
    "forward" :> {"Node", "Node.next", "Un"} @@
    "enums"   :> {"Color", "Red", "Green", "Anon", "AnonA"} @@
    "anonrecords" :> {"Outer", "Outer.b", "Outer.anonfield", "Iface"} @@
    "anonenums" :> {"Mode", "ModeA", "Hidden", "HiddenA", "TdHidden"} @@
    "fwdenum" :> {"Lazy", "LazyOne", "Tmpl"} @@
    "indexed" :> {"Container", "Container.get", "Container.set"} @@
    "keyed"   :> {"Dict", "Dict.set", "Dict.get"} @@
    "setonly" :> {"Sink", "Sink.item", "Sink.set", "Sink.count"} @@
    "badget"  :> {"Odd", "Odd.get", "Odd.set"} @@
    "skewed"  :> {"Skew", "Skew.set"} @@
    "slanted" :> {"Slant", "Slant.get"} @@
    "classes" :> {"Base", "Base.get", "Derived", "Derived.describe", "Derived.set",
                  "Derived.make"} @@
    "statics" :> {"SubFactory", "Factory"} @@
    "opaque"  :> {"Opaque", "Sub", "Sub.run", "LateSub"} @@
    "later"   :> {"Later", "Later.run"} @@
    "fwdclass" :> {"Later", "Heir", "Later+Cat"} @@
    "protocol" :> {"Drawable", "Drawable.draw", "Shape", "Shape.scaled", "Circle",
                   "Circle.draw"} @@
    "mirrors" :> {"Square", "Shape", "Circle"} @@
    "fwdproto" :> {"Lazyp", "Lazyp.m", "User"} @@
    "fwdmirror" :> {"Lazyp", "Lazyp.m", "SubUser"} @@
    "unnamedproto" :> {"SubSpook", "Ghost.fade"} @@
    "ctors"   :> {"Root", "Root.alloc", "Root.init", "Root.initWithX", "Leaf",
                  "Leaf.initWithX"} @@
    "grandchild" :> {"Twig"} @@
    "subcategory" :> {"Leaf+Ext", "Maker"} @@
    "noalloc" :> {"Bare", "Bare.init"} @@
    "badalloc" :> {"Hollow", "Hollow.alloc", "Hollow.init"} @@
    "category" :> {"Host", "Host.alloc", "Maker", "Maker.initWithZ", "Host+Cat",
                   "Cat.initWithY"} @@
    "subclass" :> {"Kid", "Host", "Host+Cat"} @@
    "props"   :> {"Widget", "Widget.title", "Widget.getTitle", "Widget.setTitle",
                  "Widget.getName", "Widget.name"} @@
    "propover" :> {"SubWidget", "SubWidget.title"} @@
    "propfunc" :> {"SubGadget"} @@
    "protoprop" :> {"Tagged"} @@
    "initwords" :> {"Store", "Store.alloc", "Store.initWithCapacity", "Store.classInit",
                    "Store.initialize", "Store._init", "Store.initX", "Store.ini"} @@
    "typedefs"  :> {"uint32_t", "Float32", "BOOL", "myint"} @@
    "typedefs-more" :> {"SEL", "__uint128_t", "badtd", "Box", "Box.Float32"} @@
    "typedefs-nomodule" :> {"uint32_t", "BOOL", "__uint128_t", "myint"} @@
    "typedefs-notype" :> {"uint32_t", "Float32", "__uint128_t"} @@
    "mistyped"  :> {"wide.uint32_t", "int.Float32", "c.BOOL", "char.SEL"} @@
    "sel-char"  :> {"char.SEL"} @@
    "sel-long"  :> {"long.SEL"} @@
    "mistyped-nomodule" :> {"wide.uint32_t", "int.Float32"} )

---------------------------------------------------------------------------
(* Swift declarations. *)

T0 == [kind |-> "", name |-> "", from |-> "", clangNode |-> "", dc |-> NoDecl,
       members |-> <<>>, hasMembers |-> FALSE, type |-> NoType,
       params |-> <<>>, static |-> FALSE, value |-> 0, convert |-> "",
       getter |-> NoDecl, setter |-> NoDecl, overridden |-> NoDecl,
       super |-> NoDecl, thunkOf |-> NoDecl, alloc |-> NoDecl,
       protocols |-> <<>>, extensions |-> <<>>]

NominalKinds == {"struct", "enum", "class", "protocol"}

\* The setup of a translation unit: whether it is compiled as Objective-C
\* (LangOpts.ObjC1), the library modules that are loaded, and the
\* declarations of the library types its typedefs can stand for, which
\* exist in the ASTContext before anything is imported.
Environment ==
  LET Lib(dc, name) == [T0 EXCEPT !.kind = "struct", !.name = name, !.dc = dc]
      All == [ObjC1 |-> TRUE, modules |-> {"swift", "ObjectiveC"},
              types |-> << Lib(SwiftModuleDC, "UInt32"), Lib(SwiftModuleDC, "Float32"),
                           Lib(ObjectiveCModuleDC, "ObjCBool"),
                           Lib(ObjectiveCModuleDC, "ObjCSel") >>]
  IN ( "typedefs" :> All @@
       "typedefs-more" :> All @@
       "typedefs-nomodule" :> [All EXCEPT !.modules = {}, !.types = <<>>] @@
       "typedefs-notype" :> [All EXCEPT !.types = << Lib(SwiftModuleDC, "Float32") >>] @@
       "mistyped" :> [All EXCEPT !.ObjC1 = FALSE] @@
       "sel-char" :> All @@
       "sel-long" :> All @@
       "mistyped-nomodule" :> [All EXCEPT !.ObjC1 = FALSE, !.modules = {}, !.types = <<>>] )
Env == IF tu \in DOMAIN Environment THEN Environment[tu]
       ELSE [ObjC1 |-> TRUE, modules |-> {"swift", "ObjectiveC"}, types |-> <<>>]

---------------------------------------------------------------------------
(* Frames and control. *)

\* A frame: the function, where it stands, its Clang declaration d, and its
\* locals.
Frame(fn, d) == [fn |-> fn, pc |-> "start", d |-> d, ft |-> FT("none", ""), dc |-> NoDecl,
                 res |-> NoDecl, i |-> 1, j |-> 1, mem |-> <<>>, tys |-> <<>>,
                 protos |-> <<>>, ty |-> NoType, x |-> NoDecl, y |-> NoDecl,
                 known |-> {}, again |-> FALSE, retry |-> FALSE]

\* What a function returns: a declaration, a type (with parameter types), the
\* converter's forward-declaration flag, or a list of declarations.
Ret(val) == [val |-> val, ty |-> NoType, tys |-> <<>>, fwd |-> FALSE, mem |-> <<>>]
RetType(ty) == [val |-> NoDecl, ty |-> ty, tys |-> <<>>, fwd |-> FALSE, mem |-> <<>>]

Range(s) == {s[i] : i \in DOMAIN s}

\* The first name of a sequence that is not "", or "".
FirstFound(names) ==
  LET hits == SelectSeq(names, LAMBDA n : n # "")
  IN IF hits = <<>> THEN "" ELSE hits[1]

RECURSIVE Concat(_)
Concat(seqs) == IF seqs = <<>> THEN <<>> ELSE Head(seqs) \o Concat(Tail(seqs))

Top == stack[Len(stack)]
At(fn, pc) == stack # <<>> /\ Top.fn = fn /\ Top.pc = pc

\* Continue in the same frame.
Goto(f) == stack' = Append(SubSeq(stack, 1, Len(stack) - 1), f) /\ ret' = ret
\* Call callee; the caller resumes as frame f when the callee returns.
Call(f, callee) ==
  /\ stack' = IF Len(stack) < MaxStack THEN SubSeq(stack, 1, Len(stack) - 1) \o <<f, callee>>
                                       ELSE <<Frame("overflow", "")>>
  /\ ret' = ret
\* Return r to the caller.
Return(r) == stack' = SubSeq(stack, 1, Len(stack) - 1) /\ ret' = r

\* new (Impl.SwiftContext) ...: the identity of the next declaration.
NewId == Len(heap) + 1

---------------------------------------------------------------------------
(* Collaborators of the file. *)

\* A faulty variant: the declaration is not registered.
addedExternalDecl_Dropped(roots, id) == roots

\* Impl.SwiftContext.addedExternalDecl(decl): the declaration joins the
\* external definitions handed to the type checker and IRGen.
addedExternalDecl(roots, id) == roots \cup {id}

\* Impl.importName(decl->getDeclName()) is non-empty; for a tag declaration
\* without a declared name, the name is that of getTypedefNameForAnonDecl(),
\* and empty when there is no such typedef.
HasName(d) ==
  IF ~Decl[d].anon THEN Decl[d].named
  ELSE IF Decl[d].typedefName # "" THEN Decl[d].named
  ELSE FALSE

\* decl->getDefinition() is non-null.
HasDefinition(d) == d \in defined

\* The visitor ConstDeclVisitor::Visit dispatches to, by the declaration's kind.
DeclinedKinds == {"namespace", "usingdirective", "label", "template", "friend",
                  "staticassert", "block", "linkagespec", "compatiblealias",
                  "objcimpl", "propertyimpl", "cxxmethod"}

\* A faulty dispatch: a namespace is handed to the record visitor.
VisitFn_NamespaceAsRecord(d) ==
  CASE Decl[d].kind \in {"record", "namespace"} -> "VisitRecordDecl"
    [] Decl[d].kind = "field" -> "VisitFieldDecl"
    [] Decl[d].kind = "enum" -> "VisitEnumDecl"
    [] Decl[d].kind = "enumconstant" -> "VisitEnumConstantDecl"
    [] Decl[d].kind = "interface" -> "VisitObjCInterfaceDecl"
    [] Decl[d].kind = "method" -> "VisitObjCMethodDecl"
    [] Decl[d].kind = "protocol" -> "VisitObjCProtocolDecl"
    [] Decl[d].kind = "category" -> "VisitObjCCategoryDecl"
    [] Decl[d].kind = "property" -> "VisitObjCPropertyDecl"
    [] Decl[d].kind = "typedef" -> "VisitTypedefNameDecl"
    [] OTHER -> "VisitDeclined"

VisitFn(d) ==
  CASE Decl[d].kind = "record" -> "VisitRecordDecl"
    [] Decl[d].kind = "field" -> "VisitFieldDecl"
    [] Decl[d].kind = "enum" -> "VisitEnumDecl"
    [] Decl[d].kind = "enumconstant" -> "VisitEnumConstantDecl"
    [] Decl[d].kind = "interface" -> "VisitObjCInterfaceDecl"
    [] Decl[d].kind = "method" -> "VisitObjCMethodDecl"
    [] Decl[d].kind = "protocol" -> "VisitObjCProtocolDecl"
    [] Decl[d].kind = "category" -> "VisitObjCCategoryDecl"
    [] Decl[d].kind = "property" -> "VisitObjCPropertyDecl"
    [] Decl[d].kind = "typedef" -> "VisitTypedefNameDecl"
    [] OTHER -> "VisitDeclined"

---------------------------------------------------------------------------
(* The client: it calls importDecl on declarations of the translation      *)
(* unit, one call at a time, and the environment makes definitions visible.*)

Init ==
  /\ tu \in DOMAIN TUDecls
  /\ Decl = ClangAST
  /\ SpecialTypedefNames = {}
  /\ defined = {d \in Decls : ~Decl[d].late}
  /\ ImportedDecls = <<>>
  /\ ImportedProtocolDecls = <<>>
  /\ Subscripts = <<>>
  /\ heap = Env.types
  /\ externalDecls = {}
  /\ stack = <<>>
  /\ ret = Ret(NoDecl)
  /\ last = [d |-> "", res |-> NoDecl, defined |-> {}]

\* A client calls Impl.importDecl(d).  Its frame notes whether the call repeats
\* its previous one with nothing in between (again), or repeats it after the
\* declaration's definition has become visible (retry), and what the previous
\* call returned (res) and how many declarations exist (i).
Request(d) ==
  /\ stack = <<>>
  /\ d \in TUDecls[tu]
  /\ stack' = << [Frame("client", d) EXCEPT
                    !.pc = "called",
                    !.again = (last.d = d /\ last.defined = defined),
                    !.retry = (last.d = d /\ d \in defined \ last.defined),
                    !.res = last.res, !.i = Len(heap)],
                 Frame("importDecl", d) >>
  /\ UNCHANGED <<tu, Decl, SpecialTypedefNames, defined, ImportedDecls, ImportedProtocolDecls, Subscripts, heap,
               externalDecls, ret, last>>

\* The call returns to the client.
ClientReturn ==
  /\ At("client", "called")
  /\ stack' = <<>>
  /\ last' = [d |-> Top.d, res |-> ret.val, defined |-> defined]
  /\ UNCHANGED <<tu, Decl, SpecialTypedefNames, defined, ImportedProtocolDecls, ImportedDecls, Subscripts, heap, externalDecls, ret>>

\* A definition of a forward-declared entity becomes visible between two calls.
Define(d) ==
  /\ stack = <<>>
  /\ d \in TUDecls[tu] \ defined
  /\ Decl[d].late
  /\ defined' = defined \cup {d}
  /\ UNCHANGED <<tu, Decl, SpecialTypedefNames, ImportedDecls, ImportedProtocolDecls, Subscripts, heap, externalDecls,
               stack, ret, last>>

---------------------------------------------------------------------------
(* ClangImporter::Implementation::importDecl *)

Cached(d) == d \in DOMAIN ImportedDecls

\* ImportedDecls[canon] = result
CacheStore(cache, d, v) == (d :> v) @@ cache

\* result->setClangNode(canon) unless result is a standard-library declaration.
SetClangNode(h, id, d) ==
  IF id # NoDecl /\ h[id].dc # SwiftModuleDC THEN [h EXCEPT ![id].clangNode = d] ELSE h

\* Faulty variants of ShouldCache: one records failures only, one records a
\* forward declaration's failure as well.
ShouldCache_OnlyFailures(result, hadForwardDeclaration) == result = NoDecl
ShouldCache_Always(result, hadForwardDeclaration) == TRUE

\* Whether importDecl records the visitor's result in ImportedDecls.
ShouldCache(result, hadForwardDeclaration) ==
  result # NoDecl \/ ~hadForwardDeclaration

ImportDecl_Lookup ==
  /\ At("importDecl", "start")
  /\ IF Top.d = "" THEN Return(Ret(NoDecl))
     ELSE IF Cached(Top.d) THEN Return(Ret(ImportedDecls[Top.d]))
     ELSE Call([Top EXCEPT !.pc = "visited"], Frame(VisitFn(Top.d), Top.d))
  /\ UNCHANGED <<tu, Decl, SpecialTypedefNames, defined, ImportedProtocolDecls, ImportedDecls, Subscripts, heap, externalDecls, last>>

ImportDecl_Record ==
  /\ At("importDecl", "visited")
  /\ heap' = SetClangNode(heap, ret.val, Top.d)
  /\ ImportedDecls' = IF ShouldCache(ret.val, ret.fwd)
                      THEN CacheStore(ImportedDecls, Top.d, ret.val)
                      ELSE ImportedDecls
  /\ Return(Ret(ret.val))
  /\ UNCHANGED <<tu, Decl, SpecialTypedefNames, defined, ImportedProtocolDecls, Subscripts, externalDecls, last>>

---------------------------------------------------------------------------
(* ClangImporter::Implementation::importDeclContextOf / importDeclContext *)

\* The DeclContext a Swift declaration provides, or null.
AsDeclContext(id) ==
  IF id # NoDecl /\ heap[id].kind \in NominalKinds \cup {"extension", "constructor"}
  THEN id ELSE NoDecl

ImportDeclContextOf_Start ==
  /\ At("importDeclContextOf", "start")
  /\ IF Decl[Top.d].parent = "TU" THEN Return(Ret(ModuleDC))
     ELSE Call([Top EXCEPT !.pc = "imported"], Frame("importDecl", Decl[Top.d].parent))
  /\ UNCHANGED <<tu, Decl, SpecialTypedefNames, defined, ImportedProtocolDecls, ImportedDecls, Subscripts, heap, externalDecls, last>>

ImportDeclContextOf_Imported ==
  /\ At("importDeclContextOf", "imported")
  /\ Return(Ret(AsDeclContext(ret.val)))
  /\ UNCHANGED <<tu, Decl, SpecialTypedefNames, defined, ImportedProtocolDecls, ImportedDecls, Subscripts, heap, externalDecls, last>>

---------------------------------------------------------------------------
(* Impl.importType (ImportType.cpp): a builtin translates to a builtin, a  *)
(* tag or Objective-C type to the declared type of its imported            *)
(* declaration, an enum that is mapped to bare constants to its underlying *)
(* integer type, anything else to no type.                                 *)

MapsToUnderlying(ft) ==
  /\ ft.k = "tag"
  /\ Decl[ft.n].kind = "enum"
  /\ ~HasName(ft.n)

ImportType_Start ==
  /\ At("importType", "start")
  /\ IF Top.ft.k = "builtin" THEN Return(RetType(BuiltinType(Top.ft.n)))
     ELSE IF MapsToUnderlying(Top.ft)
          THEN Return(RetType(BuiltinType(Decl[Top.ft.n].type.n)))
     ELSE IF Top.ft.k = "tag"
          THEN Call([Top EXCEPT !.pc = "imported"], Frame("importDecl", Top.ft.n))
     ELSE Return(RetType(NoType))
  /\ UNCHANGED <<tu, Decl, SpecialTypedefNames, defined, ImportedProtocolDecls, ImportedDecls, Subscripts, heap, externalDecls, last>>

ImportType_Imported ==
  /\ At("importType", "imported")
  /\ Return(RetType(IF ret.val = NoDecl THEN NoType ELSE DeclaredType(ret.val)))
  /\ UNCHANGED <<tu, Decl, SpecialTypedefNames, defined, ImportedProtocolDecls, ImportedDecls, Subscripts, heap, externalDecls, last>>

---------------------------------------------------------------------------
(* SwiftDeclConverter: the kinds that are never imported. *)

VisitDeclined ==
  /\ At("VisitDeclined", "start")
  /\ Return(Ret(NoDecl))
  /\ UNCHANGED <<tu, Decl, SpecialTypedefNames, defined, ImportedProtocolDecls, ImportedDecls, Subscripts, heap, externalDecls, last>>

---------------------------------------------------------------------------
(* getSwiftStdlibType: the well-known C types and the library types they    *)
(* stand for.                                                               *)

\* What the Clang ASTContext tells about a type: its size in bits, whether
\* it is an unsigned or a signed integer type, its floating-point format,
\* whether it is the Objective-C BOOL type, and what it points to.
ClangTypeInfo ==
  LET T0i == [size |-> 0, integer |-> "", sem |-> "", objcBool |-> FALSE, pointee |-> ""]
  IN ( "int" :> [T0i EXCEPT !.size = 32, !.integer = "signed"] @@
       "unsigned int" :> [T0i EXCEPT !.size = 32, !.integer = "unsigned"] @@
       "unsigned long" :> [T0i EXCEPT !.size = 64, !.integer = "unsigned"] @@
       "unsigned __int128" :> [T0i EXCEPT !.size = 128, !.integer = "unsigned"] @@
       "signed char" :> [T0i EXCEPT !.size = 8, !.integer = "signed", !.objcBool = TRUE] @@
       "float" :> [T0i EXCEPT !.size = 32, !.sem = "IEEEsingle"] @@
       "double" :> [T0i EXCEPT !.size = 64, !.sem = "IEEEdouble"] @@
       "SEL" :> [T0i EXCEPT !.size = 64, !.pointee = "ObjCSel"] @@
       "char *" :> [T0i EXCEPT !.size = 64, !.pointee = "char"] )

\* The entries of MappedTypes.def, by C type name.
MappedTypes ==
  LET E(kind, bits, module, name, languages, canBeMissing) ==
        [CTypeKind |-> kind, Bitwidth |-> bits, SwiftModuleName |-> module,
         SwiftTypeName |-> name, Languages |-> languages, CanBeMissing |-> canBeMissing]
  IN ( "uint32_t" :> E("UnsignedInt", 32, "swift", "UInt32", "All", FALSE) @@
       "Float32" :> E("FloatIEEEsingle", 32, "swift", "Float32", "All", FALSE) @@
       "Float64" :> E("FloatIEEEdouble", 64, "swift", "Float64", "All", FALSE) @@
       "__uint128_t" :> E("UnsignedInt", 128, "swift", "UInt128", "All", TRUE) @@
       "BOOL" :> E("ObjCBool", 8, "ObjectiveC", "ObjCBool", "ObjC1", FALSE) @@
       "SEL" :> E("ObjCSel", 0, "ObjectiveC", "ObjCSel", "ObjC1", FALSE) )

\* The checks of an entry against the typedef's underlying type: language,
\* bit width, then the shape the entry's kind asks for.
PropertyChecksPass_NoBitwidth(d, e) ==
  LET t == ClangTypeInfo[Decl[d].type.n]
  IN IF e.Languages # "All" /\ e.Languages = "ObjC1" /\ ~Env.ObjC1 THEN FALSE
     ELSE IF e.CTypeKind = "UnsignedInt" THEN t.integer = "unsigned"
     ELSE IF e.CTypeKind = "SignedInt" THEN t.integer = "signed"
     ELSE IF e.CTypeKind = "FloatIEEEsingle" THEN t.sem = "IEEEsingle"
     ELSE IF e.CTypeKind = "FloatIEEEdouble" THEN t.sem = "IEEEdouble"
     ELSE IF e.CTypeKind = "FloatX87DoubleExtended" THEN t.sem = "x87DoubleExtended"
     ELSE IF e.CTypeKind = "ObjCBool" THEN t.objcBool
     ELSE t.pointee = "" \/ t.pointee = "ObjCSel"
PropertyChecksPass(d, e) ==
  LET t == ClangTypeInfo[Decl[d].type.n]
  IN IF e.Languages # "All" /\ e.Languages = "ObjC1" /\ ~Env.ObjC1 THEN FALSE
     ELSE IF e.Bitwidth # 0 /\ e.Bitwidth # t.size THEN FALSE
     ELSE IF e.CTypeKind = "UnsignedInt" THEN t.integer = "unsigned"
     ELSE IF e.CTypeKind = "SignedInt" THEN t.integer = "signed"
     ELSE IF e.CTypeKind = "FloatIEEEsingle" THEN t.sem = "IEEEsingle"
     ELSE IF e.CTypeKind = "FloatIEEEdouble" THEN t.sem = "IEEEdouble"
     ELSE IF e.CTypeKind = "FloatX87DoubleExtended" THEN t.sem = "x87DoubleExtended"
     ELSE IF e.CTypeKind = "ObjCBool" THEN t.objcBool
     ELSE t.pointee = "" \/ t.pointee = "ObjCSel"

\* Impl.getSwiftModule() / Impl.getNamedModule(name): null if not loaded.
getNamedModule_AlwaysLoaded(name) ==
  IF name = "swift" THEN SwiftModuleDC ELSE ObjectiveCModuleDC
getNamedModule(name) ==
  IF name \notin Env.modules THEN NoDecl
  ELSE IF name = "swift" THEN SwiftModuleDC ELSE ObjectiveCModuleDC

\* Impl.getNamedSwiftType(M, name): the type of that name in the module, or
\* a null Type.
getNamedSwiftType(M, name) ==
  LET found == {id \in 1..Len(Env.types) : heap[id].dc = M /\ heap[id].name = name}
  IN IF found = {} THEN NoType ELSE DeclaredType(CHOOSE id \in found : TRUE)

\* getSwiftStdlibType: the library type and its name, and *IsError.
getSwiftStdlibType(d) ==
  LET none == [type |-> NoType, name |-> "", IsError |-> FALSE]
      error == [type |-> NoType, name |-> "", IsError |-> TRUE]
  IN IF ~(Decl[d].ident \in DOMAIN MappedTypes) THEN none
     ELSE LET e == MappedTypes[Decl[d].ident]
              M == getNamedModule(e.SwiftModuleName)
              SwiftType == getNamedSwiftType(M, e.SwiftTypeName)
          IN IF ~PropertyChecksPass(d, e) THEN none
             ELSE IF M = NoDecl THEN error
             ELSE IF SwiftType = NoType /\ ~e.CanBeMissing THEN error
             ELSE [type |-> SwiftType, name |-> e.SwiftTypeName, IsError |-> FALSE]

---------------------------------------------------------------------------
(* SwiftDeclConverter::VisitTypedefNameDecl *)

\* Decl->getDeclContext()->getRedeclContext()->isTranslationUnit()
isTranslationUnit_Anywhere(d) == TRUE
isTranslationUnit(d) == Decl[d].parent = "TU"

VisitTypedefNameDecl_Start ==
  /\ At("VisitTypedefNameDecl", "start")
  /\ IF ~HasName(Top.d) THEN Return(Ret(NoDecl))
     ELSE Call([Top EXCEPT !.pc = "dc"], Frame("importDeclContextOf", Top.d))
  /\ UNCHANGED <<tu, Decl, SpecialTypedefNames, defined, ImportedProtocolDecls, ImportedDecls, Subscripts, heap, externalDecls, last>>

\* At translation-unit scope the typedef may stand for a library type; a
\* typedef of the library type's own name is that type's declaration.
VisitTypedefNameDecl_Stdlib ==
  /\ At("VisitTypedefNameDecl", "dc")
  /\ LET std == IF isTranslationUnit(Top.d) THEN getSwiftStdlibType(Top.d)
                ELSE [type |-> NoType, name |-> "", IsError |-> FALSE]
     IN IF ret.val = NoDecl
        THEN Return(Ret(NoDecl)) /\ UNCHANGED SpecialTypedefNames
        ELSE IF std.IsError
        THEN Return(Ret(NoDecl)) /\ UNCHANGED SpecialTypedefNames
        ELSE IF std.type # NoType
        THEN /\ SpecialTypedefNames' = SpecialTypedefNames \cup {Top.d}
             /\ IF Decl[Top.d].ident = std.name
                THEN Return(Ret(std.type.id))
                ELSE Goto([Top EXCEPT !.pc = "create", !.dc = ret.val, !.ty = std.type])
        ELSE /\ UNCHANGED SpecialTypedefNames
             /\ Call([Top EXCEPT !.pc = "type", !.dc = ret.val],
                     [Frame("importType", "") EXCEPT !.ft = Decl[Top.d].type])
  /\ UNCHANGED <<tu, Decl, defined, ImportedProtocolDecls, ImportedDecls, Subscripts, heap, externalDecls, last>>

\* The type alias of the library type or of the translated underlying type.
VisitTypedefNameDecl_Create ==
  /\ stack # <<>>
  /\ Top.fn = "VisitTypedefNameDecl"
  /\ Top.pc \in {"type", "create"}
  /\ LET SwiftType == IF Top.pc = "type" THEN ret.ty ELSE Top.ty
     IN IF SwiftType = NoType
        THEN Return(Ret(NoDecl)) /\ UNCHANGED heap
        ELSE /\ heap' = Append(heap, [T0 EXCEPT !.kind = "typealias",
                                                !.name = Decl[Top.d].ident,
                                                !.from = Top.d, !.dc = Top.dc,
                                                !.type = SwiftType])
             /\ Return(Ret(NewId))
  /\ UNCHANGED <<tu, Decl, SpecialTypedefNames, defined, ImportedProtocolDecls, ImportedDecls, Subscripts, externalDecls, last>>

---------------------------------------------------------------------------
(* SwiftDeclConverter::VisitRecordDecl *)

VisitRecordDecl_Start ==
  /\ At("VisitRecordDecl", "start")
  /\ IF Decl[Top.d].union THEN Return(Ret(NoDecl))
     ELSE IF Decl[Top.d].interface THEN Return(Ret(NoDecl))
     ELSE IF Decl[Top.d].anonymousStructOrUnion THEN Return(Ret(NoDecl))
     ELSE IF ~HasDefinition(Top.d) THEN Return([Ret(NoDecl) EXCEPT !.fwd = TRUE])
     ELSE IF ~HasName(Top.d) THEN Return(Ret(NoDecl))
     ELSE Call([Top EXCEPT !.pc = "dc"], Frame("importDeclContextOf", Top.d))
  /\ UNCHANGED <<tu, Decl, SpecialTypedefNames, defined, ImportedProtocolDecls, ImportedDecls, Subscripts, heap, externalDecls, last>>

\* A faulty variant: the record is entered in ImportedDecls by importDecl only,
\* after its members.
RecordCachedLate == FALSE

\* Whether the record is entered in ImportedDecls before its members are imported.
RecordCachedEarly == TRUE

VisitRecordDecl_Create ==
  /\ At("VisitRecordDecl", "dc")
  /\ IF ret.val = NoDecl
     THEN /\ Return(Ret(NoDecl))
          /\ UNCHANGED <<heap, ImportedDecls>>
     ELSE /\ heap' = Append(heap, [T0 EXCEPT !.kind = "struct", !.name = Top.d,
                                             !.from = Top.d, !.clangNode = Top.d,
                                             !.dc = ret.val])
          /\ ImportedDecls' = IF RecordCachedEarly
                              THEN CacheStore(ImportedDecls, Top.d, NewId)
                              ELSE ImportedDecls
          /\ Goto([Top EXCEPT !.pc = "members", !.res = NewId, !.i = 1, !.mem = <<>>])
  /\ UNCHANGED <<tu, Decl, SpecialTypedefNames, defined, ImportedProtocolDecls, Subscripts, externalDecls, last>>

\* The members the loop passes over: those that are no NamedDecl, and the
\* fields that are anonymous structs or unions.
SkippedMember(m) ==
  \/ Decl[m].kind \in {"staticassert", "friend", "linkagespec", "block"}
  \/ Decl[m].kind = "field" /\ Decl[m].anonymousStructOrUnion

\* A faulty variant: a member that failed to import is kept.
AppendMember_Always(members, member) == Append(members, member)

\* if (!member) continue; members.push_back(member);
AppendMember(members, member) ==
  IF member = NoDecl THEN members ELSE Append(members, member)

VisitRecordDecl_Member ==
  /\ At("VisitRecordDecl", "members")
  /\ Top.i <= Len(Decl[Top.d].members)
  /\ IF SkippedMember(Decl[Top.d].members[Top.i])
     THEN Goto([Top EXCEPT !.i = @ + 1])
     ELSE Call([Top EXCEPT !.pc = "member"],
               Frame("importDecl", Decl[Top.d].members[Top.i]))
  /\ UNCHANGED <<tu, Decl, SpecialTypedefNames, defined, ImportedProtocolDecls, ImportedDecls, Subscripts, heap, externalDecls, last>>

VisitRecordDecl_MemberDone ==
  /\ At("VisitRecordDecl", "member")
  /\ Goto([Top EXCEPT !.pc = "members", !.i = @ + 1,
                      !.mem = AppendMember(@, ret.val)])
  /\ UNCHANGED <<tu, Decl, SpecialTypedefNames, defined, ImportedProtocolDecls, ImportedDecls, Subscripts, heap, externalDecls, last>>

VisitRecordDecl_Finish ==
  /\ At("VisitRecordDecl", "members")
  /\ Top.i > Len(Decl[Top.d].members)
  /\ heap' = [heap EXCEPT ![Top.res].members = Top.mem, ![Top.res].hasMembers = TRUE]
  /\ externalDecls' = addedExternalDecl(externalDecls, Top.res)
  /\ Return(Ret(Top.res))
  /\ UNCHANGED <<tu, Decl, SpecialTypedefNames, defined, ImportedProtocolDecls, ImportedDecls, Subscripts, last>>

---------------------------------------------------------------------------
(* SwiftDeclConverter::VisitFieldDecl *)

VisitFieldDecl_Start ==
  /\ At("VisitFieldDecl", "start")
  /\ IF ~HasName(Top.d) THEN Return(Ret(NoDecl))
     ELSE Call([Top EXCEPT !.pc = "type"],
               [Frame("importType", "") EXCEPT !.ft = Decl[Top.d].type])
  /\ UNCHANGED <<tu, Decl, SpecialTypedefNames, defined, ImportedProtocolDecls, ImportedDecls, Subscripts, heap, externalDecls, last>>

VisitFieldDecl_Type ==
  /\ At("VisitFieldDecl", "type")
  /\ IF ret.ty = NoType THEN Return(Ret(NoDecl))
     ELSE Call([Top EXCEPT !.pc = "dc", !.ty = ret.ty],
               Frame("importDeclContextOf", Top.d))
  /\ UNCHANGED <<tu, Decl, SpecialTypedefNames, defined, ImportedProtocolDecls, ImportedDecls, Subscripts, heap, externalDecls, last>>

VisitFieldDecl_Create ==
  /\ At("VisitFieldDecl", "dc")
  /\ IF ret.val = NoDecl
     THEN Return(Ret(NoDecl)) /\ heap' = heap
     ELSE /\ heap' = Append(heap, [T0 EXCEPT !.kind = "var", !.name = Top.d,
                                             !.from = Top.d, !.dc = ret.val,
                                             !.type = Top.ty])
          /\ Return(Ret(NewId))
  /\ UNCHANGED <<tu, Decl, SpecialTypedefNames, defined, ImportedProtocolDecls, ImportedDecls, Subscripts, externalDecls, last>>

---------------------------------------------------------------------------
(* ClangImporter::Implementation::classifyEnum *)

\* A faulty variant: every enum is an option set.
classifyEnum_AlwaysOptions(e) == "Options"

classifyEnum(e) == IF ~HasName(e) THEN "Constants" ELSE "Options"

---------------------------------------------------------------------------
(* SwiftDeclConverter::VisitEnumDecl *)

VisitEnumDecl_Start ==
  /\ At("VisitEnumDecl", "start")
  /\ IF ~HasDefinition(Top.d) THEN Return([Ret(NoDecl) EXCEPT !.fwd = TRUE])
     ELSE IF ~HasName(Top.d) THEN Return(Ret(NoDecl))
     ELSE Call([Top EXCEPT !.pc = "dc"], Frame("importDeclContextOf", Top.d))
  /\ UNCHANGED <<tu, Decl, SpecialTypedefNames, defined, ImportedProtocolDecls, ImportedDecls, Subscripts, heap, externalDecls, last>>

\* case EnumKind::Options creates the struct, then imports the underlying type;
\* case EnumKind::Enum creates the enum and records it.
VisitEnumDecl_Classify ==
  /\ At("VisitEnumDecl", "dc")
  /\ IF ret.val = NoDecl \/ classifyEnum(Top.d) = "Constants"
     THEN /\ Return(Ret(NoDecl))
          /\ UNCHANGED <<heap, ImportedDecls>>
     ELSE IF classifyEnum(Top.d) = "Options"
     THEN /\ heap' = Append(heap, [T0 EXCEPT !.kind = "struct", !.name = Top.d,
                                             !.from = Top.d, !.dc = ret.val])
          /\ Call([Top EXCEPT !.pc = "underlying", !.res = NewId],
                  [Frame("importType", "") EXCEPT !.ft = Decl[Top.d].type])
          /\ UNCHANGED ImportedDecls
     ELSE /\ heap' = Append(heap, [T0 EXCEPT !.kind = "enum", !.name = Top.d,
                                             !.from = Top.d, !.clangNode = Top.d,
                                             !.dc = ret.val])
          /\ ImportedDecls' = CacheStore(ImportedDecls, Top.d, NewId)
          /\ Goto([Top EXCEPT !.pc = "enumerators", !.res = NewId, !.i = 1,
                              !.mem = <<>>, !.x = NewId])
  /\ UNCHANGED <<tu, Decl, SpecialTypedefNames, defined, ImportedProtocolDecls, Subscripts, externalDecls, last>>

\* createValueConstructor(structDecl, {value}): the constructor's identity is id,
\* its one parameter has the type of the stored variable.
ValueConstructor(structId, paramTypes) ==
  [T0 EXCEPT !.kind = "constructor", !.name = "init", !.dc = structId,
             !.params = paramTypes, !.type = DeclaredType(structId)]

\* The option-set struct: a stored variable 'value' of the underlying type, its
\* pattern binding and a constructor taking that value; members are
\* { constructor, patternBinding, var }.
VisitEnumDecl_Options ==
  /\ At("VisitEnumDecl", "underlying")
  /\ IF ret.ty = NoType
     THEN /\ Return(Ret(NoDecl))
          /\ UNCHANGED <<heap, ImportedDecls, externalDecls>>
     ELSE LET var == NewId
              ctor == NewId + 1
              binding == NewId + 2
              h1 == heap \o
                    << [T0 EXCEPT !.kind = "var", !.name = "value", !.dc = Top.res,
                                  !.type = ret.ty],
                       ValueConstructor(Top.res, <<ret.ty>>),
                       [T0 EXCEPT !.kind = "patternbinding", !.dc = Top.res,
                                  !.getter = var] >>
          IN /\ heap' = [h1 EXCEPT ![Top.res].members = <<ctor, binding, var>>,
                                   ![Top.res].hasMembers = TRUE,
                                   ![Top.res].clangNode = Top.d]
             /\ externalDecls' = addedExternalDecl(externalDecls, ctor)
             /\ ImportedDecls' = CacheStore(ImportedDecls, Top.d, Top.res)
             /\ Goto([Top EXCEPT !.pc = "enumerators", !.i = 1, !.mem = <<>>])
  /\ UNCHANGED <<tu, Decl, SpecialTypedefNames, defined, ImportedProtocolDecls, Subscripts, last>>

VisitEnumDecl_Enumerator ==
  /\ At("VisitEnumDecl", "enumerators")
  /\ Top.i <= Len(Decl[Top.d].members)
  /\ Call([Top EXCEPT !.pc = "enumerator"],
          Frame("importDecl", Decl[Top.d].members[Top.i]))
  /\ UNCHANGED <<tu, Decl, SpecialTypedefNames, defined, ImportedProtocolDecls, ImportedDecls, Subscripts, heap, externalDecls, last>>

VisitEnumDecl_EnumeratorDone ==
  /\ At("VisitEnumDecl", "enumerator")
  /\ Goto([Top EXCEPT !.pc = "enumerators", !.i = @ + 1,
                      !.mem = IF ret.val = NoDecl THEN @ ELSE Append(@, ret.val)])
  /\ UNCHANGED <<tu, Decl, SpecialTypedefNames, defined, ImportedProtocolDecls, ImportedDecls, Subscripts, heap, externalDecls, last>>

\* Only a Swift enum (enumDecl non-null) gets the enumerators as its members.
VisitEnumDecl_Finish ==
  /\ At("VisitEnumDecl", "enumerators")
  /\ Top.i > Len(Decl[Top.d].members)
  /\ heap' = IF Top.x # NoDecl
             THEN [heap EXCEPT ![Top.x].members = Top.mem, ![Top.x].hasMembers = TRUE]
             ELSE heap
  /\ Return(Ret(Top.res))
  /\ UNCHANGED <<tu, Decl, SpecialTypedefNames, defined, ImportedProtocolDecls, ImportedDecls, Subscripts, externalDecls, last>>

---------------------------------------------------------------------------
(* ClangImporter::Implementation::createConstant: a computed variable and  *)
(* its getter, which is registered as an external definition.              *)

ConstantVar(name, from, dc, type, value, convertKind, getter) ==
  [T0 EXCEPT !.kind = "var", !.name = name, !.from = from, !.dc = dc, !.type = type,
             !.value = value, !.convert = convertKind, !.getter = getter]

ConstantGetter(dc, type) ==
  [T0 EXCEPT !.kind = "func", !.dc = dc, !.type = type]

---------------------------------------------------------------------------
(* SwiftDeclConverter::VisitEnumConstantDecl *)

\* What a constant of an enum of the given classification is converted with.
ConstantConvertKind(enumKind) ==
  IF enumKind = "Constants" THEN "Coerce" ELSE "Construction"

VisitEnumConstantDecl_Start ==
  /\ At("VisitEnumConstantDecl", "start")
  /\ IF ~HasName(Top.d) THEN Return(Ret(NoDecl))
     ELSE IF classifyEnum(Decl[Top.d].parent) = "Enum"
     THEN Call([Top EXCEPT !.pc = "create"], Frame("importDeclContextOf", Top.d))
     ELSE Call([Top EXCEPT !.pc = "create", !.dc = ModuleDC],
               [Frame("importType", "") EXCEPT !.ft = FT("tag", Decl[Top.d].parent)])
  /\ UNCHANGED <<tu, Decl, SpecialTypedefNames, defined, ImportedProtocolDecls, ImportedDecls, Subscripts, heap, externalDecls, last>>

\* Importing the type can revisit this very EnumConstantDecl: the cache is
\* looked up again before the constant is created.
\* A faulty variant: the cache is not looked up again.
ConstantRecheck_Never(d) == FALSE

ConstantRecheck(d) == Cached(d)

\* case EnumKind::Constants and case EnumKind::Options resume with the enum's
\* type and create a constant; case EnumKind::Enum resumes with the enum's
\* DeclContext and creates an element.
VisitEnumConstantDecl_Create ==
  /\ At("VisitEnumConstantDecl", "create")
  /\ LET enumKind == classifyEnum(Decl[Top.d].parent)
         failed == IF enumKind = "Enum" THEN ret.val = NoDecl ELSE ret.ty = NoType
     IN IF failed
        THEN /\ Return(Ret(NoDecl))
             /\ UNCHANGED <<heap, ImportedDecls, externalDecls>>
        ELSE IF ConstantRecheck(Top.d)
        THEN /\ Return(Ret(ImportedDecls[Top.d]))
             /\ UNCHANGED <<heap, ImportedDecls, externalDecls>>
        ELSE IF enumKind = "Enum"
        THEN /\ heap' = Append(heap, [T0 EXCEPT !.kind = "enumelement", !.name = Top.d,
                                                !.from = Top.d, !.dc = ret.val,
                                                !.type = DeclaredType(ret.val)])
             /\ ImportedDecls' = CacheStore(ImportedDecls, Top.d, NewId)
             /\ Return(Ret(NewId))
             /\ UNCHANGED externalDecls
        ELSE LET var == NewId
                 func == NewId + 1
             IN /\ heap' = heap \o
                     << ConstantVar(Top.d, Top.d, Top.dc, ret.ty, Decl[Top.d].value,
                                    ConstantConvertKind(enumKind), func),
                        ConstantGetter(Top.dc, ret.ty) >>
                /\ externalDecls' = addedExternalDecl(externalDecls, func)
                /\ ImportedDecls' = CacheStore(ImportedDecls, Top.d, var)
                /\ Return(Ret(var))
  /\ UNCHANGED <<tu, Decl, SpecialTypedefNames, defined, ImportedProtocolDecls, Subscripts, last>>

---------------------------------------------------------------------------
(* Queries on the Clang AST of Objective-C containers. *)

\* The declarations of a container: those of its definition.
MembersOf(c) == IF HasDefinition(c) THEN Decl[c].members ELSE <<>>

\* A faulty variant: the selector is not compared.
GetMethod_AnySelector(c, sel, inst) ==
  LET found == {i \in 1..Len(MembersOf(c)) :
                  /\ Decl[MembersOf(c)[i]].kind = "method"
                  /\ Decl[MembersOf(c)[i]].inst = inst}
  IN IF found = {} THEN ""
     ELSE MembersOf(c)[CHOOSE i \in found : \A j \in found : i <= j]

\* ObjCContainerDecl::getMethod(sel, isInstance): the method declared directly
\* in the container, or "" for none.
GetMethod(c, sel, inst) ==
  LET found == {i \in 1..Len(MembersOf(c)) :
                  /\ Decl[MembersOf(c)[i]].kind = "method"
                  /\ Decl[MembersOf(c)[i]].sel = sel
                  /\ Decl[MembersOf(c)[i]].inst = inst}
  IN IF found = {} THEN ""
     ELSE MembersOf(c)[CHOOSE i \in found : \A j \in found : i <= j]

\* ObjCContainerDecl::meth_begin .. meth_end: the methods among the members.
MethodsOf(c) == SelectSeq(MembersOf(c), LAMBDA m : Decl[m].kind = "method")

\* ObjCInterfaceDecl::getSuperClass
SuperClassOf(c) == IF HasDefinition(c) THEN Decl[c].super ELSE ""

\* getReferencedProtocols
ProtocolsOf(c) == IF HasDefinition(c) THEN Decl[c].protocols ELSE <<>>

\* ObjCInterfaceDecl::visible_categories
CategoriesOf(c) ==
  SelectSeq(<<"Host+Cat", "Leaf+Ext", "Later+Cat">>, LAMBDA k : Decl[k].cls = c)

\* The order in which a lookup visits a list of protocols: each protocol, then
\* the protocols it refers to, then the rest of the list.
RECURSIVE ProtocolLookupOrder(_)
ProtocolLookupOrder(ps) ==
  IF ps = <<>> THEN <<>>
  ELSE <<Head(ps)>> \o ProtocolLookupOrder(ProtocolsOf(Head(ps)) \o Tail(ps))

\* The first container of the list that declares the method yields it.
FirstDeclaring(cs, sel, inst) ==
  FirstFound([i \in 1..Len(cs) |-> GetMethod(cs[i], sel, inst)])

\* A category and the protocols it refers to.
CategoryLookupOrder(k) == <<k>> \o ProtocolLookupOrder(ProtocolsOf(k))

\* The order in which ObjCInterfaceDecl::lookupMethod visits containers: the
\* class, its protocols, its categories and their protocols, then the same
\* for its superclasses.
RECURSIVE ClassLookupOrder(_)
ClassLookupOrder(c) ==
  IF c = "" THEN <<>>
  ELSE <<c>>
       \o ProtocolLookupOrder(ProtocolsOf(c))
       \o Concat([i \in 1..Len(CategoriesOf(c)) |-> CategoryLookupOrder(CategoriesOf(c)[i])])
       \o ClassLookupOrder(SuperClassOf(c))

\* ObjCInterfaceDecl::lookupMethod(sel, isInstance)
lookupMethod(c, sel, inst) == FirstDeclaring(ClassLookupOrder(c), sel, inst)

lookupClassMethod(c, sel) == lookupMethod(c, sel, FALSE)

\* ObjCMethodDecl::getClassInterface: the class of a method of a class or of
\* one of its categories, "" for a method of a protocol.
ClassInterfaceOf(m) ==
  IF Decl[Decl[m].parent].kind = "interface" THEN Decl[m].parent
  ELSE IF Decl[Decl[m].parent].kind = "category" THEN Decl[Decl[m].parent].cls
  ELSE ""

---------------------------------------------------------------------------
(* Impl.importFunctionType (ImportType.cpp): the result type and every     *)
(* parameter type are imported in turn; the function type exists if all of *)
(* them translate.                                                         *)

FunctionTypes(m) == <<Decl[m].type>> \o Decl[m].params

ImportFunctionType_Next ==
  /\ At("importFunctionType", "start")
  /\ IF Top.i <= Len(FunctionTypes(Top.d))
     THEN Call([Top EXCEPT !.pc = "imported"],
               [Frame("importType", "") EXCEPT !.ft = FunctionTypes(Top.d)[Top.i]])
     ELSE Return([RetType(Top.tys[1]) EXCEPT !.tys = Tail(Top.tys)])
  /\ UNCHANGED <<tu, Decl, SpecialTypedefNames, defined, ImportedProtocolDecls, ImportedDecls, Subscripts, heap, externalDecls, last>>

ImportFunctionType_Imported ==
  /\ At("importFunctionType", "imported")
  /\ IF ret.ty = NoType THEN Return(RetType(NoType))
     ELSE Goto([Top EXCEPT !.pc = "start", !.i = @ + 1, !.tys = Append(@, ret.ty)])
  /\ UNCHANGED <<tu, Decl, SpecialTypedefNames, defined, ImportedProtocolDecls, ImportedDecls, Subscripts, heap, externalDecls, last>>

---------------------------------------------------------------------------
(* The selectors the special members are recognised by. *)

\* The selectors of the subscripting protocol.
objectAtIndexedSubscript == "objectAtIndexedSubscript:"
setObjectAtIndexedSubscript == "setObject:atIndexedSubscript:"
objectForKeyedSubscript == "objectForKeyedSubscript:"
setObjectForKeyedSubscript == "setObject:forKeyedSubscript:"
\* Selector::getIdentifierInfoForSlot(0): the first piece of a selector; a
\* selector without arguments is its own first piece.
KeywordSelectors ==
  ( objectAtIndexedSubscript :> "objectAtIndexedSubscript" @@
    setObjectAtIndexedSubscript :> "setObject" @@
    objectForKeyedSubscript :> "objectForKeyedSubscript" @@
    setObjectForKeyedSubscript :> "setObject" @@
    "itemAt:" :> "itemAt" @@ "scaled:" :> "scaled" @@ "setTitle:" :> "setTitle" @@
    "initWithX:" :> "initWithX" @@ "initWithY:" :> "initWithY" @@
    "initWithZ:" :> "initWithZ" @@ "initWithCapacity:" :> "initWithCapacity" )
NameForSlot0(sel) == IF sel \in DOMAIN KeywordSelectors THEN KeywordSelectors[sel] ELSE sel

GetterSelectors == {objectAtIndexedSubscript, objectForKeyedSubscript}
\* The selector of the other accessor of the pair.
Counterpart(sel) ==
  CASE sel = objectAtIndexedSubscript -> setObjectAtIndexedSubscript
    [] sel = setObjectAtIndexedSubscript -> objectAtIndexedSubscript
    [] sel = objectForKeyedSubscript -> setObjectForKeyedSubscript
    [] sel = setObjectForKeyedSubscript -> objectForKeyedSubscript

---------------------------------------------------------------------------
(* SwiftDeclConverter::VisitObjCMethodDecl *)

\* VisitObjCMethodDecl(decl): import the owning context first.
VisitObjCMethodDecl_Start ==
  /\ At("VisitObjCMethodDecl", "start")
  /\ Call([Top EXCEPT !.pc = "dc"], Frame("importDeclContextOf", Top.d))
  /\ UNCHANGED <<tu, Decl, SpecialTypedefNames, defined, ImportedProtocolDecls, ImportedDecls, Subscripts, heap, externalDecls, last>>

VisitObjCMethodDecl_Context ==
  /\ At("VisitObjCMethodDecl", "dc")
  /\ IF ret.val = NoDecl THEN Return(Ret(NoDecl))
     ELSE Goto([Top EXCEPT !.pc = "body", !.dc = ret.val])
  /\ UNCHANGED <<tu, Decl, SpecialTypedefNames, defined, ImportedProtocolDecls, ImportedDecls, Subscripts, heap, externalDecls, last>>

\* VisitObjCMethodDecl(decl, dc): the name, then the function type.
VisitObjCMethodDecl_Type ==
  /\ At("VisitObjCMethodDecl", "body")
  /\ IF ~HasName(Top.d) THEN Return(Ret(NoDecl))
     ELSE Call([Top EXCEPT !.pc = "type"], Frame("importFunctionType", Top.d))
  /\ UNCHANGED <<tu, Decl, SpecialTypedefNames, defined, ImportedProtocolDecls, ImportedDecls, Subscripts, heap, externalDecls, last>>

\* The class whose type is 'self' in a context: the class, or the class an
\* extension extends; NoDecl in a protocol.
SelfClass(dc) ==
  IF dc = NoDecl \/ dc = ModuleDC THEN NoDecl
  ELSE IF heap[dc].kind = "class" THEN dc
  ELSE IF heap[dc].kind = "extension" THEN heap[dc].type.id
  ELSE NoDecl

\* getSelfTypeForContext(dc): 'Self' in a protocol, else the declared type.
SelfType(dc) ==
  IF heap[dc].kind = "protocol" THEN [n |-> "Self", id |-> dc]
  ELSE DeclaredType(SelfClass(dc))

\* The Clang method an imported method overrides: looked up by selector and
\* receiver kind from the Clang declaration of the Swift superclass.
\* The 'self' type of a class method is a metatype, which is no class type.
OverriddenMethod(m, dc) ==
  IF ~Decl[m].inst \/ SelfClass(dc) = NoDecl \/ heap[SelfClass(dc)].super = NoDecl
  THEN ""
  ELSE IF heap[heap[SelfClass(dc)].super].clangNode = "" THEN ""
  ELSE lookupMethod(heap[heap[SelfClass(dc)].super].clangNode, Decl[m].sel, Decl[m].inst)

\* The FuncDecl is created; a method it overrides is imported next, mirrored
\* into the superclass if a protocol declares it.
VisitObjCMethodDecl_Create ==
  /\ At("VisitObjCMethodDecl", "type")
  /\ IF ret.ty = NoType
     THEN /\ Return(Ret(NoDecl))
          /\ heap' = heap
     ELSE /\ heap' = Append(heap, [T0 EXCEPT !.kind = "func",
                                             !.name = NameForSlot0(Decl[Top.d].sel),
                                             !.from = Top.d, !.dc = Top.dc,
                                             !.type = ret.ty, !.params = ret.tys,
                                             !.static = ~Decl[Top.d].inst])
          /\ LET over == OverriddenMethod(Top.d, Top.dc)
             IN IF over = "" THEN Goto([Top EXCEPT !.pc = "record", !.res = NewId])
                ELSE IF Decl[Decl[over].parent].kind = "protocol"
                THEN Call([Top EXCEPT !.pc = "override", !.res = NewId],
                          [Frame("importMirroredDecl", over)
                             EXCEPT !.dc = heap[SelfClass(Top.dc)].super])
                ELSE Call([Top EXCEPT !.pc = "override", !.res = NewId],
                          Frame("importDecl", over))
  /\ UNCHANGED <<tu, Decl, SpecialTypedefNames, defined, ImportedProtocolDecls, ImportedDecls, Subscripts, externalDecls, last>>

VisitObjCMethodDecl_Override ==
  /\ At("VisitObjCMethodDecl", "override")
  /\ heap' = IF ret.val # NoDecl THEN [heap EXCEPT ![Top.res].overridden = ret.val]
                                 ELSE heap
  /\ Goto([Top EXCEPT !.pc = "record"])
  /\ UNCHANGED <<tu, Decl, SpecialTypedefNames, defined, ImportedProtocolDecls, ImportedDecls, Subscripts, externalDecls, last>>

\* if (!Impl.ImportedDecls[canon]) Impl.ImportedDecls[canon] = result;
RecordMethod(cache, d, result) ==
  IF d \in DOMAIN cache /\ cache[d] # NoDecl THEN cache ELSE CacheStore(cache, d, result)

\* islower(c) of a one-character string, in the "C" locale.
islower(c) ==
  c \in {"a", "b", "c", "d", "e", "f", "g", "h", "i", "j", "k", "l", "m",
         "n", "o", "p", "q", "r", "s", "t", "u", "v", "w", "x", "y", "z"}

\* startsWithWord: name starts with word, and the word ends there.
startsWithWord_AnyPrefix(name, word) ==
  IF Len(name) < Len(word) THEN FALSE ELSE SubSeq(name, 1, Len(word)) = word
startsWithWord(name, word) ==
  IF Len(name) < Len(word) THEN FALSE
  ELSE /\ \/ Len(name) = Len(word)
          \/ ~islower(SubSeq(name, Len(word) + 1, Len(word) + 1))
       /\ SubSeq(name, 1, Len(word)) = word

\* isReallyInitMethod: an instance method whose selector's first piece
\* starts with the word "init".
isReallyInitMethod(m) ==
  IF ~Decl[m].inst THEN FALSE
  ELSE IF NameForSlot0(Decl[m].sel) = "" THEN FALSE
  ELSE startsWithWord(NameForSlot0(Decl[m].sel), "init")

\* decl->getMethodFamily() == OMF_init && isReallyInitMethod(decl)
IsInitMethod(m) == Decl[m].family = "init" /\ isReallyInitMethod(m)

VisitObjCMethodDecl_Record ==
  /\ At("VisitObjCMethodDecl", "record")
  /\ heap' = [heap EXCEPT ![Top.res].clangNode = Top.d]
  /\ ImportedDecls' = RecordMethod(ImportedDecls, Top.d, Top.res)
  /\ IF ~IsInitMethod(Top.d)
     THEN Call([Top EXCEPT !.pc = "special"],
               [Frame("importSpecialMethod", Top.d) EXCEPT !.x = Top.res, !.dc = Top.dc])
     ELSE Goto([Top EXCEPT !.pc = "special"])
  /\ UNCHANGED <<tu, Decl, SpecialTypedefNames, defined, ImportedProtocolDecls, Subscripts, externalDecls, last>>

VisitObjCMethodDecl_Finish ==
  /\ At("VisitObjCMethodDecl", "special")
  /\ Return(Ret(Top.res))
  /\ UNCHANGED <<tu, Decl, SpecialTypedefNames, defined, ImportedProtocolDecls, ImportedDecls, Subscripts, heap, externalDecls, last>>

---------------------------------------------------------------------------
(* SwiftDeclConverter::importSpecialMethod: frame field x is the imported   *)
(* method, d its Clang declaration, dc the context of the special member.  *)

IsSubscriptAccessor(m) ==
  /\ Decl[m].family = "none"
  /\ Decl[m].inst
  /\ Decl[m].sel \in {objectAtIndexedSubscript, setObjectAtIndexedSubscript,
                     objectForKeyedSubscript, setObjectForKeyedSubscript}

ImportSpecialMethod ==
  /\ At("importSpecialMethod", "start")
  /\ LET m == heap[Top.x].clangNode
     IN IF m = "" THEN Return(Ret(NoDecl))
        ELSE IF Decl[m].kind # "method" THEN Return(Ret(NoDecl))
        ELSE IF IsSubscriptAccessor(m)
        THEN Goto([Top EXCEPT !.fn = "importSubscript", !.d = m])
        ELSE IF IsInitMethod(m)
        THEN Goto([Top EXCEPT !.fn = "importConstructor", !.d = m])
        ELSE Return(Ret(NoDecl))
  /\ UNCHANGED <<tu, Decl, SpecialTypedefNames, defined, ImportedProtocolDecls, ImportedDecls, Subscripts, heap, externalDecls, last>>

---------------------------------------------------------------------------
(* SwiftDeclConverter::importConstructor: frame field x is the imported    *)
(* init method, d its Clang method, dc the context of the constructor.     *)

\* The class whose alloc the constructor calls: for a protocol's method the
\* class the method is mirrored into, else the method's own class.
\* A faulty variant: alloc is looked up in the method's own class only.
AllocInterface_Declaring(m, dc) == ClassInterfaceOf(m)

AllocInterface(m, dc) ==
  IF Decl[Decl[m].parent].kind = "protocol"
  THEN IF SelfClass(dc) = NoDecl THEN ""
       ELSE IF heap[SelfClass(dc)].clangNode = "" THEN ""
       ELSE IF Decl[heap[SelfClass(dc)].clangNode].kind = "interface"
       THEN heap[SelfClass(dc)].clangNode
       ELSE ""
  ELSE ClassInterfaceOf(m)

ImportConstructor_Start ==
  /\ At("importConstructor", "start")
  /\ IF lookupClassMethod(AllocInterface(Top.d, Top.dc), "alloc") = ""
     THEN Return(Ret(NoDecl))
     ELSE Call([Top EXCEPT !.pc = "alloc"],
               Frame("importDecl", lookupClassMethod(AllocInterface(Top.d, Top.dc), "alloc")))
  /\ UNCHANGED <<tu, Decl, SpecialTypedefNames, defined, ImportedProtocolDecls, ImportedDecls, Subscripts, heap, externalDecls, last>>

ImportConstructor_Alloc ==
  /\ At("importConstructor", "alloc")
  /\ IF ret.val = NoDecl THEN Return(Ret(NoDecl))
     ELSE Call([Top EXCEPT !.pc = "type", !.y = ret.val],
               Frame("importFunctionType", Top.d))
  /\ UNCHANGED <<tu, Decl, SpecialTypedefNames, defined, ImportedProtocolDecls, ImportedDecls, Subscripts, heap, externalDecls, last>>

\* The constructor takes the method's parameters and returns the type of
\* 'self'; it is handed to the type checker as an external definition.
ImportConstructor_Create ==
  /\ At("importConstructor", "type")
  /\ heap' = Append(heap, [T0 EXCEPT !.kind = "constructor", !.name = "init",
                                     !.clangNode = Top.d, !.dc = Top.dc,
                                     !.type = SelfType(Top.dc), !.params = ret.tys,
                                     !.alloc = Top.y])
  /\ externalDecls' = addedExternalDecl(externalDecls, NewId)
  /\ Return(Ret(NewId))
  /\ UNCHANGED <<tu, Decl, SpecialTypedefNames, defined, ImportedProtocolDecls, ImportedDecls, Subscripts, last>>

---------------------------------------------------------------------------
(* SwiftDeclConverter::importSubscript: frame field x is the imported       *)
(* accessor, d its Clang method, dc the context; y receives the other      *)
(* accessor.                                                               *)

\* The accessor of the pair that the interface offers for the method, or "".
CounterpartMethod(m) ==
  lookupMethod(ClassInterfaceOf(m), Counterpart(Decl[m].sel), TRUE)

\* A setter alone makes no subscript: Swift has no write-only subscripting.
RejectsWithoutGetter(getter) == getter = NoDecl

ImportSubscript_Start ==
  /\ At("importSubscript", "start")
  /\ IF ClassInterfaceOf(Top.d) = "" THEN Return(Ret(NoDecl))
     ELSE IF CounterpartMethod(Top.d) # ""
     THEN Call([Top EXCEPT !.pc = "counterpart"],
               Frame("importDecl", CounterpartMethod(Top.d)))
     ELSE IF Decl[Top.d].sel \in GetterSelectors
     THEN Goto([Top EXCEPT !.pc = "build", !.y = NoDecl])
     ELSE IF RejectsWithoutGetter(NoDecl) THEN Return(Ret(NoDecl))
     ELSE Goto([Top EXCEPT !.pc = "build", !.y = Top.x, !.x = NoDecl])
  /\ UNCHANGED <<tu, Decl, SpecialTypedefNames, defined, ImportedProtocolDecls, ImportedDecls, Subscripts, heap, externalDecls, last>>

\* After the counterpart's import: x becomes the getter, y the setter.
ImportSubscript_Counterpart ==
  /\ At("importSubscript", "counterpart")
  /\ IF Decl[Top.d].sel \in GetterSelectors
     THEN Goto([Top EXCEPT !.pc = "build",
                           !.y = IF ret.val # NoDecl /\ heap[ret.val].static
                                 THEN NoDecl ELSE ret.val])
     ELSE IF ret.val # NoDecl /\ heap[ret.val].static THEN Return(Ret(NoDecl))
     ELSE IF RejectsWithoutGetter(ret.val) THEN Return(Ret(NoDecl))
     ELSE Goto([Top EXCEPT !.pc = "build", !.x = ret.val, !.y = Top.x])
  /\ UNCHANGED <<tu, Decl, SpecialTypedefNames, defined, ImportedProtocolDecls, ImportedDecls, Subscripts, heap, externalDecls, last>>

\* Impl.Subscripts[{getter, setter}] read with operator[]: an absent key is
\* entered with a null value.
SubscriptsProbe(map, key) == IF key \in DOMAIN map THEN map ELSE (key :> NoDecl) @@ map

\* A faulty variant: the types of the setter's parameters are not compared.
ShapesAgree_CountsOnly(getter, setter) ==
  /\ getter # NoDecl
  /\ Len(heap[getter].params) = 1
  /\ setter # NoDecl => Len(heap[setter].params) = 2

\* The getter takes exactly one index; a setter takes (value, index) with the
\* getter's element type and index type.
ShapesAgree(getter, setter) ==
  /\ getter # NoDecl
  /\ Len(heap[getter].params) = 1
  /\ setter # NoDecl =>
       /\ Len(heap[setter].params) = 2
       /\ heap[setter].params[1] = heap[getter].type
       /\ heap[setter].params[2] = heap[getter].params[1]

\* Members a qualified lookup of a name finds in a class, its extensions and
\* its superclasses (lib/AST name lookup).
RECURSIVE lookupQualified(_, _)
lookupQualified(class, name) ==
  IF class = NoDecl THEN <<>>
  ELSE SelectSeq(heap[class].members
                   \o Concat([i \in 1..Len(heap[class].extensions) |->
                                heap[heap[class].extensions[i]].members]),
                 LAMBDA id : heap[id].name = name)
       \o lookupQualified(heap[class].super, name)

\* The first subscript found with the same index types.
OverriddenSubscript(dc, indexTypes) ==
  LET found == SelectSeq(lookupQualified(SelfClass(dc), "__subscript"),
                         LAMBDA id : heap[id].kind = "subscript"
                                     /\ heap[id].params = indexTypes)
  IN IF found = <<>> THEN NoDecl ELSE found[1]

ImportSubscript_Build ==
  /\ At("importSubscript", "build")
  /\ LET getter == Top.x
         setter == Top.y
         key == <<getter, setter>>
         probed == SubscriptsProbe(Subscripts, key)
     IN IF probed[key] # NoDecl
        THEN /\ Return(Ret(probed[key]))
             /\ Subscripts' = probed
             /\ heap' = heap
        ELSE IF ~ShapesAgree(getter, setter)
        THEN /\ Return(Ret(NoDecl))
             /\ Subscripts' = probed
             /\ heap' = heap
        ELSE LET getterThunk == NewId
                 setterThunk == IF setter # NoDecl THEN NewId + 1 ELSE NoDecl
                 subscript == IF setter # NoDecl THEN NewId + 2 ELSE NewId + 1
                 parent == OverriddenSubscript(Top.dc, heap[getter].params)
                 thunk(acc, over) ==
                   [T0 EXCEPT !.kind = "func", !.dc = Top.dc, !.thunkOf = acc,
                              !.type = heap[acc].type, !.params = heap[getter].params,
                              !.overridden = over]
                 sub == [T0 EXCEPT !.kind = "subscript", !.name = "__subscript",
                                   !.dc = Top.dc, !.type = heap[getter].type,
                                   !.params = heap[getter].params,
                                   !.getter = getterThunk, !.setter = setterThunk,
                                   !.overridden = parent]
                 parentGetter == IF parent = NoDecl THEN NoDecl ELSE heap[parent].getter
                 parentSetter == IF parent = NoDecl THEN NoDecl ELSE heap[parent].setter
             IN /\ heap' = heap \o <<thunk(getter, parentGetter)>>
                              \o (IF setter # NoDecl THEN <<thunk(setter, parentSetter)>>
                                                     ELSE <<>>)
                              \o <<sub>>
                /\ Subscripts' = (<<getterThunk, NoDecl>> :> subscript) @@
                                 (key :> subscript) @@ probed
                /\ Return(Ret(subscript))
  /\ UNCHANGED <<tu, Decl, SpecialTypedefNames, defined, ImportedProtocolDecls, ImportedDecls, externalDecls, last>>

---------------------------------------------------------------------------
(* SwiftDeclConverter::importObjCMembers: d is the Clang container, dc the  *)
(* Swift context, mem the members so far, known the special members added. *)

ImportObjCMembers_Next ==
  /\ At("importObjCMembers", "start")
  /\ IF Top.i <= Len(MembersOf(Top.d))
     THEN Call([Top EXCEPT !.pc = "member"], Frame("importDecl", MembersOf(Top.d)[Top.i]))
     ELSE Return([Ret(NoDecl) EXCEPT !.mem = Top.mem])
  /\ UNCHANGED <<tu, Decl, SpecialTypedefNames, defined, ImportedProtocolDecls, ImportedDecls, Subscripts, heap, externalDecls, last>>

\* A method that is the accessor of a property has the property imported
\* first; any other method goes on to its special member.
ImportObjCMembers_Member ==
  /\ At("importObjCMembers", "member")
  /\ LET nd == MembersOf(Top.d)[Top.i]
     IN IF ret.val = NoDecl
        THEN Goto([Top EXCEPT !.pc = "start", !.i = @ + 1])
        ELSE IF Decl[nd].kind # "method"
        THEN Goto([Top EXCEPT !.pc = "start", !.i = @ + 1, !.mem = Append(@, ret.val)])
        ELSE IF Decl[nd].prop # ""
        THEN Call([Top EXCEPT !.pc = "property", !.x = ret.val],
                  Frame("importDecl", Decl[nd].prop))
        ELSE Call([Top EXCEPT !.pc = "special", !.x = ret.val],
                  [Frame("importSpecialMethod", nd) EXCEPT !.x = ret.val, !.dc = Top.dc])
  /\ UNCHANGED <<tu, Decl, SpecialTypedefNames, defined, ImportedProtocolDecls, ImportedDecls, Subscripts, heap, externalDecls, last>>

\* The accessor of an imported property is left out of the members.
ImportObjCMembers_Property ==
  /\ At("importObjCMembers", "property")
  /\ IF ret.val # NoDecl
     THEN Goto([Top EXCEPT !.pc = "start", !.i = @ + 1])
     ELSE Call([Top EXCEPT !.pc = "special"],
               [Frame("importSpecialMethod", MembersOf(Top.d)[Top.i])
                  EXCEPT !.x = Top.x, !.dc = Top.dc])
  /\ UNCHANGED <<tu, Decl, SpecialTypedefNames, defined, ImportedProtocolDecls, ImportedDecls, Subscripts, heap, externalDecls, last>>

\* A faulty variant: the special member is added for every accessor.
WithSpecial_Unchecked(mem, known, special) ==
  IF special # NoDecl THEN Append(mem, special) ELSE mem

\* if (knownMembers.insert(special)) members.push_back(special);
WithSpecial(mem, known, special) ==
  IF special # NoDecl /\ special \notin known THEN Append(mem, special) ELSE mem

\* A special member is added once; a constructor hides its init method.
ImportObjCMembers_Special ==
  /\ At("importObjCMembers", "special")
  /\ LET special == ret.val
         withSpecial == WithSpecial(Top.mem, Top.known, special)
         hidden == special # NoDecl /\ heap[special].kind = "constructor"
     IN Goto([Top EXCEPT !.pc = "start", !.i = @ + 1,
                         !.known = IF special # NoDecl THEN @ \cup {special} ELSE @,
                         !.mem = IF hidden THEN withSpecial
                                 ELSE Append(withSpecial, Top.x)])
  /\ UNCHANGED <<tu, Decl, SpecialTypedefNames, defined, ImportedProtocolDecls, ImportedDecls, Subscripts, heap, externalDecls, last>>

---------------------------------------------------------------------------
(* SwiftDeclConverter::importObjCProtocols: d is the Clang container whose  *)
(* referenced protocols are imported; mem collects the Swift protocols.    *)

ImportObjCProtocols_Next ==
  /\ At("importObjCProtocols", "start")
  /\ IF Top.i <= Len(ProtocolsOf(Top.d))
     THEN Call([Top EXCEPT !.pc = "imported"],
               Frame("importDecl", ProtocolsOf(Top.d)[Top.i]))
     ELSE Return([Ret(NoDecl) EXCEPT !.mem = Top.mem])
  /\ UNCHANGED <<tu, Decl, SpecialTypedefNames, defined, ImportedProtocolDecls, ImportedDecls, Subscripts, heap, externalDecls, last>>

ImportObjCProtocols_Imported ==
  /\ At("importObjCProtocols", "imported")
  /\ Goto([Top EXCEPT !.pc = "start", !.i = @ + 1,
                      !.mem = IF ret.val # NoDecl /\ ret.val \notin Range(@)
                              THEN Append(@, ret.val) ELSE @])
  /\ UNCHANGED <<tu, Decl, SpecialTypedefNames, defined, ImportedProtocolDecls, ImportedDecls, Subscripts, heap, externalDecls, last>>

---------------------------------------------------------------------------
(* ClangImporter::Implementation::importMirroredDecl: d is the protocol's   *)
(* method, dc the context it is mirrored into.                             *)

\* A faulty variant: the owning context is no part of the key.
MirrorKey_DeclOnly(m, dc) == <<m, NoDecl>>

\* The key of ImportedProtocolDecls: { decl->getCanonicalDecl(), dc }.
MirrorKey(m, dc) == <<m, dc>>

ImportMirroredDecl_Lookup ==
  /\ At("importMirroredDecl", "start")
  /\ IF Top.d = "" THEN Return(Ret(NoDecl))
     ELSE IF MirrorKey(Top.d, Top.dc) \in DOMAIN ImportedProtocolDecls
     THEN Return(Ret(ImportedProtocolDecls[MirrorKey(Top.d, Top.dc)]))
     ELSE Call([Top EXCEPT !.pc = "visited"],
               [Frame("VisitObjCMethodDecl", Top.d) EXCEPT !.pc = "body", !.dc = Top.dc])
  /\ UNCHANGED <<tu, Decl, SpecialTypedefNames, defined, ImportedProtocolDecls, ImportedDecls, Subscripts, heap, externalDecls, last>>

ImportMirroredDecl_Record ==
  /\ At("importMirroredDecl", "visited")
  /\ heap' = IF ret.val # NoDecl THEN [heap EXCEPT ![ret.val].clangNode = Top.d] ELSE heap
  /\ ImportedProtocolDecls' =
       IF ShouldCache(ret.val, ret.fwd)
       THEN CacheStore(ImportedProtocolDecls, MirrorKey(Top.d, Top.dc), ret.val)
       ELSE ImportedProtocolDecls
  /\ Return(Ret(ret.val))
  /\ UNCHANGED <<tu, Decl, SpecialTypedefNames, defined, ImportedDecls, Subscripts, externalDecls, last>>

---------------------------------------------------------------------------
(* SwiftDeclConverter::importMirroredProtocolMembers: d is the Clang        *)
(* container, dc its Swift context, protos the Swift protocols it conforms *)
(* to; i runs over the protocols and j over the members of protocol i.     *)

ImportMirroredProtocolMembers_Next ==
  /\ At("importMirroredProtocolMembers", "start")
  /\ IF Top.i > Len(Top.protos) THEN Return([Ret(NoDecl) EXCEPT !.mem = Top.mem])
     ELSE IF Top.j > Len(heap[Top.protos[Top.i]].members)
     THEN Goto([Top EXCEPT !.i = @ + 1, !.j = 1])
     ELSE LET member == heap[heap[Top.protos[Top.i]].members[Top.j]]
              mirrors == /\ member.kind = "func"
                         /\ member.clangNode # ""
                         /\ Decl[member.clangNode].kind = "method"
                         /\ GetMethod(Top.d, Decl[member.clangNode].sel,
                                      Decl[member.clangNode].inst) = ""
          IN IF mirrors
             THEN Call([Top EXCEPT !.pc = "imported"],
                       [Frame("importMirroredDecl", member.clangNode) EXCEPT !.dc = Top.dc])
             ELSE Goto([Top EXCEPT !.j = @ + 1])
  /\ UNCHANGED <<tu, Decl, SpecialTypedefNames, defined, ImportedProtocolDecls, ImportedDecls, Subscripts, heap, externalDecls, last>>

ImportMirroredProtocolMembers_Imported ==
  /\ At("importMirroredProtocolMembers", "imported")
  /\ IF ret.val = NoDecl THEN Goto([Top EXCEPT !.pc = "start", !.j = @ + 1])
     ELSE Call([Top EXCEPT !.pc = "special", !.mem = Append(@, ret.val)],
               [Frame("importSpecialMethod", heap[ret.val].clangNode)
                  EXCEPT !.x = ret.val, !.dc = Top.dc])
  /\ UNCHANGED <<tu, Decl, SpecialTypedefNames, defined, ImportedProtocolDecls, ImportedDecls, Subscripts, heap, externalDecls, last>>

ImportMirroredProtocolMembers_Special ==
  /\ At("importMirroredProtocolMembers", "special")
  /\ Goto([Top EXCEPT !.pc = "start", !.j = @ + 1,
                      !.mem = IF ret.val # NoDecl THEN Append(@, ret.val) ELSE @])
  /\ UNCHANGED <<tu, Decl, SpecialTypedefNames, defined, ImportedProtocolDecls, ImportedDecls, Subscripts, heap, externalDecls, last>>

---------------------------------------------------------------------------
(* SwiftDeclConverter::importInheritedConstructors: d is the Clang class,   *)
(* dc its Swift class, known the selectors seen, mem the members so far.   *)

\* hasMethodShallow: the class or one of its categories declares the method.
hasMethodShallow(sel, inst, objcClass) ==
  \/ GetMethod(objcClass, sel, inst) # ""
  \/ \E k \in Range(CategoriesOf(objcClass)) : GetMethod(k, sel, inst) # ""

\* The methods the loops visit: those of the class, of its categories, then
\* of each superclass and its categories.
\* A faulty variant: nothing is inherited.
InheritedFrom_None(c) == <<>>

RECURSIVE InheritedFrom(_)
InheritedFrom(c) ==
  IF c = "" THEN <<>>
  ELSE MethodsOf(c)
       \o Concat([i \in 1..Len(CategoriesOf(c)) |-> MethodsOf(CategoriesOf(c)[i])])
       \o InheritedFrom(SuperClassOf(c))

\* A faulty variant: no selector counts as seen.
SeenBefore_Never(known, sel) == FALSE

\* knownSelectors.insert(sel) fails: the selector was inserted before.
SeenBefore(known, sel) == sel \in known

ImportInheritedConstructors_Next ==
  /\ At("importInheritedConstructors", "start")
  /\ IF Top.i > Len(InheritedFrom(Top.d)) THEN Return([Ret(NoDecl) EXCEPT !.mem = Top.mem])
     ELSE LET meth == InheritedFrom(Top.d)[Top.i]
          IN IF /\ Decl[meth].family = "init"
                /\ isReallyInitMethod(meth)
                /\ ~hasMethodShallow(Decl[meth].sel, Decl[meth].inst, Top.d)
                /\ ~SeenBefore(Top.known, Decl[meth].sel)
             THEN Call([Top EXCEPT !.pc = "imported", !.known = @ \cup {Decl[meth].sel}],
                       Frame("importDecl", meth))
             ELSE Goto([Top EXCEPT !.i = @ + 1])
  /\ UNCHANGED <<tu, Decl, SpecialTypedefNames, defined, ImportedProtocolDecls, ImportedDecls, Subscripts, heap, externalDecls, last>>

ImportInheritedConstructors_Imported ==
  /\ At("importInheritedConstructors", "imported")
  /\ IF ret.val = NoDecl THEN Goto([Top EXCEPT !.pc = "start", !.i = @ + 1])
     ELSE Call([Top EXCEPT !.pc = "constructor"],
               [Frame("importConstructor", InheritedFrom(Top.d)[Top.i])
                  EXCEPT !.x = ret.val, !.dc = Top.dc])
  /\ UNCHANGED <<tu, Decl, SpecialTypedefNames, defined, ImportedProtocolDecls, ImportedDecls, Subscripts, heap, externalDecls, last>>

ImportInheritedConstructors_Constructor ==
  /\ At("importInheritedConstructors", "constructor")
  /\ Goto([Top EXCEPT !.pc = "start", !.i = @ + 1,
                      !.mem = IF ret.val # NoDecl THEN Append(@, ret.val) ELSE @])
  /\ UNCHANGED <<tu, Decl, SpecialTypedefNames, defined, ImportedProtocolDecls, ImportedDecls, Subscripts, heap, externalDecls, last>>

---------------------------------------------------------------------------
(* SwiftDeclConverter::VisitObjCCategoryDecl *)

VisitObjCCategoryDecl_Start ==
  /\ At("VisitObjCCategoryDecl", "start")
  /\ Call([Top EXCEPT !.pc = "class"], Frame("importDecl", Decl[Top.d].cls))
  /\ UNCHANGED <<tu, Decl, SpecialTypedefNames, defined, ImportedProtocolDecls, ImportedDecls, Subscripts, heap, externalDecls, last>>

VisitObjCCategoryDecl_Class ==
  /\ At("VisitObjCCategoryDecl", "class")
  /\ IF ret.val = NoDecl THEN Return(Ret(NoDecl))
     ELSE Call([Top EXCEPT !.pc = "dc", !.x = ret.val],
               Frame("importDeclContextOf", Top.d))
  /\ UNCHANGED <<tu, Decl, SpecialTypedefNames, defined, ImportedProtocolDecls, ImportedDecls, Subscripts, heap, externalDecls, last>>

\* The extension is created, added to its class and recorded.
VisitObjCCategoryDecl_Create ==
  /\ At("VisitObjCCategoryDecl", "dc")
  /\ IF ret.val = NoDecl
     THEN /\ Return(Ret(NoDecl))
          /\ UNCHANGED <<heap, ImportedDecls>>
     ELSE /\ heap' = Append([heap EXCEPT ![Top.x].extensions = Append(@, NewId)],
                            [T0 EXCEPT !.kind = "extension", !.from = Top.d,
                                       !.clangNode = Top.d, !.dc = ret.val,
                                       !.type = DeclaredType(Top.x)])
          /\ ImportedDecls' = CacheStore(ImportedDecls, Top.d, NewId)
          /\ Call([Top EXCEPT !.pc = "protocols", !.res = NewId],
                  Frame("importObjCProtocols", Top.d))
  /\ UNCHANGED <<tu, Decl, SpecialTypedefNames, defined, ImportedProtocolDecls, Subscripts, externalDecls, last>>

VisitObjCCategoryDecl_Protocols ==
  /\ At("VisitObjCCategoryDecl", "protocols")
  /\ heap' = [heap EXCEPT ![Top.res].protocols = ret.mem]
  /\ Call([Top EXCEPT !.pc = "members"],
          [Frame("importObjCMembers", Top.d) EXCEPT !.dc = Top.res])
  /\ UNCHANGED <<tu, Decl, SpecialTypedefNames, defined, ImportedProtocolDecls, ImportedDecls, Subscripts, externalDecls, last>>

VisitObjCCategoryDecl_Members ==
  /\ At("VisitObjCCategoryDecl", "members")
  /\ Call([Top EXCEPT !.pc = "mirrored"],
          [Frame("importMirroredProtocolMembers", Top.d)
             EXCEPT !.dc = Top.res, !.mem = ret.mem, !.protos = heap[Top.res].protocols])
  /\ UNCHANGED <<tu, Decl, SpecialTypedefNames, defined, ImportedProtocolDecls, ImportedDecls, Subscripts, heap, externalDecls, last>>

VisitObjCCategoryDecl_Finish ==
  /\ At("VisitObjCCategoryDecl", "mirrored")
  /\ heap' = [heap EXCEPT ![Top.res].members = ret.mem, ![Top.res].hasMembers = TRUE]
  /\ Return(Ret(Top.res))
  /\ UNCHANGED <<tu, Decl, SpecialTypedefNames, defined, ImportedProtocolDecls, ImportedDecls, Subscripts, externalDecls, last>>

---------------------------------------------------------------------------
(* SwiftDeclConverter::VisitObjCProtocolDecl *)

VisitObjCProtocolDecl_Start ==
  /\ At("VisitObjCProtocolDecl", "start")
  /\ IF ~HasDefinition(Top.d) THEN Return([Ret(NoDecl) EXCEPT !.fwd = TRUE])
     ELSE IF ~HasName(Top.d) THEN Return(Ret(NoDecl))
     ELSE Call([Top EXCEPT !.pc = "dc"], Frame("importDeclContextOf", Top.d))
  /\ UNCHANGED <<tu, Decl, SpecialTypedefNames, defined, ImportedProtocolDecls, ImportedDecls, Subscripts, heap, externalDecls, last>>

\* The protocol is created and recorded, then the protocols it refers to are
\* imported.
VisitObjCProtocolDecl_Create ==
  /\ At("VisitObjCProtocolDecl", "dc")
  /\ IF ret.val = NoDecl
     THEN /\ Return(Ret(NoDecl))
          /\ UNCHANGED <<heap, ImportedDecls>>
     ELSE /\ heap' = Append(heap, [T0 EXCEPT !.kind = "protocol", !.name = Top.d,
                                             !.from = Top.d, !.clangNode = Top.d,
                                             !.dc = ret.val])
          /\ ImportedDecls' = CacheStore(ImportedDecls, Top.d, NewId)
          /\ Call([Top EXCEPT !.pc = "protocols", !.res = NewId],
                  Frame("importObjCProtocols", Top.d))
  /\ UNCHANGED <<tu, Decl, SpecialTypedefNames, defined, ImportedProtocolDecls, Subscripts, externalDecls, last>>

\* The implicit associated type 'Self' becomes the first member, and the
\* member list holds it alone while the members are imported.
VisitObjCProtocolDecl_Self ==
  /\ At("VisitObjCProtocolDecl", "protocols")
  /\ heap' = Append([heap EXCEPT ![Top.res].protocols = ret.mem,
                                 ![Top.res].members = <<NewId>>,
                                 ![Top.res].hasMembers = TRUE],
                    [T0 EXCEPT !.kind = "associatedtype", !.name = "Self",
                               !.dc = Top.res])
  /\ Call([Top EXCEPT !.pc = "members"],
          [Frame("importObjCMembers", Top.d) EXCEPT !.dc = Top.res, !.mem = <<NewId>>])
  /\ UNCHANGED <<tu, Decl, SpecialTypedefNames, defined, ImportedProtocolDecls, ImportedDecls, Subscripts, externalDecls, last>>

VisitObjCProtocolDecl_Finish ==
  /\ At("VisitObjCProtocolDecl", "members")
  /\ heap' = [heap EXCEPT ![Top.res].members = ret.mem]
  /\ externalDecls' = addedExternalDecl(externalDecls, Top.res)
  /\ Return(Ret(Top.res))
  /\ UNCHANGED <<tu, Decl, SpecialTypedefNames, defined, ImportedProtocolDecls, ImportedDecls, Subscripts, last>>

---------------------------------------------------------------------------
(* SwiftDeclConverter::VisitObjCInterfaceDecl *)

VisitObjCInterfaceDecl_Start ==
  /\ At("VisitObjCInterfaceDecl", "start")
  /\ IF ~HasDefinition(Top.d) THEN Return([Ret(NoDecl) EXCEPT !.fwd = TRUE])
     ELSE IF ~HasName(Top.d) THEN Return(Ret(NoDecl))
     ELSE Call([Top EXCEPT !.pc = "dc"], Frame("importDeclContextOf", Top.d))
  /\ UNCHANGED <<tu, Decl, SpecialTypedefNames, defined, ImportedProtocolDecls, ImportedDecls, Subscripts, heap, externalDecls, last>>

\* The class is created and recorded, then its superclass is imported.
VisitObjCInterfaceDecl_Create ==
  /\ At("VisitObjCInterfaceDecl", "dc")
  /\ IF ret.val = NoDecl
     THEN /\ Return(Ret(NoDecl))
          /\ UNCHANGED <<heap, ImportedDecls>>
     ELSE /\ heap' = Append(heap, [T0 EXCEPT !.kind = "class", !.name = Top.d,
                                             !.from = Top.d, !.clangNode = Top.d,
                                             !.dc = ret.val])
          /\ ImportedDecls' = CacheStore(ImportedDecls, Top.d, NewId)
          /\ IF SuperClassOf(Top.d) # ""
             THEN Call([Top EXCEPT !.pc = "super", !.res = NewId],
                       Frame("importDecl", SuperClassOf(Top.d)))
             ELSE Call([Top EXCEPT !.pc = "protocols", !.res = NewId],
                       Frame("importObjCProtocols", Top.d))
  /\ UNCHANGED <<tu, Decl, SpecialTypedefNames, defined, ImportedProtocolDecls, Subscripts, externalDecls, last>>

\* Without its superclass the class is given up, though it is recorded.
VisitObjCInterfaceDecl_Super ==
  /\ At("VisitObjCInterfaceDecl", "super")
  /\ IF ret.val = NoDecl
     THEN /\ Return(Ret(NoDecl))
          /\ heap' = heap
     ELSE /\ heap' = [heap EXCEPT ![Top.res].super = ret.val]
          /\ Call([Top EXCEPT !.pc = "protocols"], Frame("importObjCProtocols", Top.d))
  /\ UNCHANGED <<tu, Decl, SpecialTypedefNames, defined, ImportedProtocolDecls, ImportedDecls, Subscripts, externalDecls, last>>

VisitObjCInterfaceDecl_Protocols ==
  /\ At("VisitObjCInterfaceDecl", "protocols")
  /\ heap' = [heap EXCEPT ![Top.res].protocols = ret.mem]
  /\ Call([Top EXCEPT !.pc = "members"],
          [Frame("importObjCMembers", Top.d) EXCEPT !.dc = Top.res])
  /\ UNCHANGED <<tu, Decl, SpecialTypedefNames, defined, ImportedProtocolDecls, ImportedDecls, Subscripts, externalDecls, last>>

VisitObjCInterfaceDecl_Members ==
  /\ At("VisitObjCInterfaceDecl", "members")
  /\ Call([Top EXCEPT !.pc = "inherited"],
          [Frame("importInheritedConstructors", Top.d)
             EXCEPT !.dc = Top.res, !.mem = ret.mem])
  /\ UNCHANGED <<tu, Decl, SpecialTypedefNames, defined, ImportedProtocolDecls, ImportedDecls, Subscripts, heap, externalDecls, last>>

VisitObjCInterfaceDecl_Inherited ==
  /\ At("VisitObjCInterfaceDecl", "inherited")
  /\ Call([Top EXCEPT !.pc = "mirrored"],
          [Frame("importMirroredProtocolMembers", Top.d)
             EXCEPT !.dc = Top.res, !.mem = ret.mem, !.protos = heap[Top.res].protocols])
  /\ UNCHANGED <<tu, Decl, SpecialTypedefNames, defined, ImportedProtocolDecls, ImportedDecls, Subscripts, heap, externalDecls, last>>

VisitObjCInterfaceDecl_Finish ==
  /\ At("VisitObjCInterfaceDecl", "mirrored")
  /\ heap' = [heap EXCEPT ![Top.res].members = ret.mem, ![Top.res].hasMembers = TRUE]
  /\ externalDecls' = addedExternalDecl(externalDecls, Top.res)
  /\ Return(Ret(Top.res))
  /\ UNCHANGED <<tu, Decl, SpecialTypedefNames, defined, ImportedProtocolDecls, ImportedDecls, Subscripts, last>>

---------------------------------------------------------------------------
(* SwiftDeclConverter::VisitObjCPropertyDecl: x and y receive the imported  *)
(* getter and setter, res the property a superclass declares by that name. *)

VisitObjCPropertyDecl_Start ==
  /\ At("VisitObjCPropertyDecl", "start")
  /\ IF Decl[Decl[Top.d].parent].kind = "protocol" THEN Return(Ret(NoDecl))
     ELSE Call([Top EXCEPT !.pc = "dc"], Frame("importDeclContextOf", Top.d))
  /\ UNCHANGED <<tu, Decl, SpecialTypedefNames, defined, ImportedProtocolDecls, ImportedDecls, Subscripts, heap, externalDecls, last>>

\* A faulty variant: no declaration found suppresses the property.
SuppressedBy_Nothing(found) == FALSE

\* if (isa<FuncDecl>(result)) return nullptr; for a result of the lookup
SuppressedBy(found) == \E id \in Range(found) : heap[id].kind = "func"

\* A method of the property's name suppresses the property.
VisitObjCPropertyDecl_Context ==
  /\ At("VisitObjCPropertyDecl", "dc")
  /\ IF ret.val = NoDecl THEN Return(Ret(NoDecl))
     ELSE IF ~HasName(Top.d) THEN Return(Ret(NoDecl))
     ELSE LET found == lookupQualified(SelfClass(ret.val), Decl[Top.d].ident)
              vars_ == SelectSeq(found, LAMBDA id : heap[id].kind = "var")
          IN IF SuppressedBy(found)
             THEN Return(Ret(NoDecl))
             ELSE Call([Top EXCEPT !.pc = "type", !.dc = ret.val,
                                   !.res = IF vars_ = <<>> THEN NoDecl
                                           ELSE vars_[Len(vars_)]],
                       [Frame("importType", "") EXCEPT !.ft = Decl[Top.d].type])
  /\ UNCHANGED <<tu, Decl, SpecialTypedefNames, defined, ImportedProtocolDecls, ImportedDecls, Subscripts, heap, externalDecls, last>>

VisitObjCPropertyDecl_Type ==
  /\ At("VisitObjCPropertyDecl", "type")
  /\ IF ret.ty = NoType THEN Return(Ret(NoDecl))
     ELSE Call([Top EXCEPT !.pc = "getter", !.ty = ret.ty],
               Frame("importDecl", Decl[Top.d].getterM))
  /\ UNCHANGED <<tu, Decl, SpecialTypedefNames, defined, ImportedProtocolDecls, ImportedDecls, Subscripts, heap, externalDecls, last>>

VisitObjCPropertyDecl_Getter ==
  /\ At("VisitObjCPropertyDecl", "getter")
  /\ IF ret.val = NoDecl /\ Decl[Top.d].getterM # "" THEN Return(Ret(NoDecl))
     ELSE Call([Top EXCEPT !.pc = "setter", !.x = ret.val],
               Frame("importDecl", Decl[Top.d].setterM))
  /\ UNCHANGED <<tu, Decl, SpecialTypedefNames, defined, ImportedProtocolDecls, ImportedDecls, Subscripts, heap, externalDecls, last>>

\* The variable is created with a getter thunk and, if the property has a
\* setter, a setter thunk.
VisitObjCPropertyDecl_Create ==
  /\ At("VisitObjCPropertyDecl", "setter")
  /\ IF ret.val = NoDecl /\ Decl[Top.d].setterM # ""
     THEN /\ Return(Ret(NoDecl))
          /\ heap' = heap
     ELSE LET setter == ret.val
              result == NewId
              getterThunk == NewId + 1
              setterThunk == IF setter # NoDecl THEN NewId + 2 ELSE NoDecl
              thunk(acc) == [T0 EXCEPT !.kind = "func", !.dc = Top.dc, !.thunkOf = acc,
                                       !.type = heap[acc].type]
          IN /\ heap' = heap
                  \o << [T0 EXCEPT !.kind = "var", !.name = Decl[Top.d].ident,
                                   !.from = Top.d, !.dc = Top.dc, !.type = Top.ty,
                                   !.getter = getterThunk, !.setter = setterThunk,
                                   !.overridden = Top.res],
                        thunk(Top.x) >>
                  \o (IF setter # NoDecl THEN <<thunk(setter)>> ELSE <<>>)
             /\ Return(Ret(result))
  /\ UNCHANGED <<tu, Decl, SpecialTypedefNames, defined, ImportedProtocolDecls, ImportedDecls, Subscripts, externalDecls, last>>

---------------------------------------------------------------------------

\* The importer running a call.
Run ==
  \/ VisitTypedefNameDecl_Start
  \/ VisitTypedefNameDecl_Stdlib
  \/ VisitTypedefNameDecl_Create
  \/ ImportDecl_Lookup
  \/ ImportDecl_Record
  \/ ImportDeclContextOf_Start
  \/ ImportDeclContextOf_Imported
  \/ ImportType_Start
  \/ ImportType_Imported
  \/ VisitDeclined
  \/ VisitRecordDecl_Start
  \/ VisitRecordDecl_Create
  \/ VisitRecordDecl_Member
  \/ VisitRecordDecl_MemberDone
  \/ VisitRecordDecl_Finish
  \/ VisitFieldDecl_Start
  \/ VisitFieldDecl_Type
  \/ VisitFieldDecl_Create
  \/ VisitEnumDecl_Start
  \/ VisitEnumDecl_Classify
  \/ VisitEnumDecl_Options
  \/ VisitEnumDecl_Enumerator
  \/ VisitEnumDecl_EnumeratorDone
  \/ VisitEnumDecl_Finish
  \/ VisitEnumConstantDecl_Start
  \/ VisitEnumConstantDecl_Create
  \/ ImportFunctionType_Next
  \/ ImportFunctionType_Imported
  \/ VisitObjCMethodDecl_Start
  \/ VisitObjCMethodDecl_Context
  \/ VisitObjCMethodDecl_Type
  \/ VisitObjCMethodDecl_Create
  \/ VisitObjCMethodDecl_Override
  \/ VisitObjCMethodDecl_Record
  \/ VisitObjCMethodDecl_Finish
  \/ ImportSpecialMethod
  \/ ImportConstructor_Start
  \/ ImportConstructor_Alloc
  \/ ImportConstructor_Create
  \/ ImportSubscript_Start
  \/ ImportSubscript_Counterpart
  \/ ImportSubscript_Build
  \/ ImportObjCMembers_Next
  \/ ImportObjCMembers_Member
  \/ ImportObjCMembers_Property
  \/ ImportObjCMembers_Special
  \/ ImportObjCProtocols_Next
  \/ ImportObjCProtocols_Imported
  \/ ImportMirroredDecl_Lookup
  \/ ImportMirroredDecl_Record
  \/ ImportMirroredProtocolMembers_Next
  \/ ImportMirroredProtocolMembers_Imported
  \/ ImportMirroredProtocolMembers_Special
  \/ ImportInheritedConstructors_Next
  \/ ImportInheritedConstructors_Imported
  \/ ImportInheritedConstructors_Constructor
  \/ VisitObjCCategoryDecl_Start
  \/ VisitObjCCategoryDecl_Class
  \/ VisitObjCCategoryDecl_Create
  \/ VisitObjCCategoryDecl_Protocols
  \/ VisitObjCCategoryDecl_Members
  \/ VisitObjCCategoryDecl_Finish
  \/ VisitObjCProtocolDecl_Start
  \/ VisitObjCProtocolDecl_Create
  \/ VisitObjCProtocolDecl_Self
  \/ VisitObjCProtocolDecl_Finish
  \/ VisitObjCInterfaceDecl_Start
  \/ VisitObjCInterfaceDecl_Create
  \/ VisitObjCInterfaceDecl_Super
  \/ VisitObjCInterfaceDecl_Protocols
  \/ VisitObjCInterfaceDecl_Members
  \/ VisitObjCInterfaceDecl_Inherited
  \/ VisitObjCInterfaceDecl_Finish
  \/ VisitObjCPropertyDecl_Start
  \/ VisitObjCPropertyDecl_Context
  \/ VisitObjCPropertyDecl_Type
  \/ VisitObjCPropertyDecl_Getter
  \/ VisitObjCPropertyDecl_Create

\* The client and the environment act between two calls; the importer runs a
\* call.
Next ==
  \/ \E d \in Decls : Request(d)
  \/ ClientReturn
  \/ \E d \in Decls : Define(d)
  \/ Run

Spec == Init /\ [][Next]_vars

\* A call, once made, runs on: the importer is sequential code that neither
\* blocks nor waits.
LiveSpec == Spec /\ WF_vars(Run)

---------------------------------------------------------------------------
(* Properties. *)

\* The importDecl call on d has returned to the client.
Returned == At("client", "called")

\* The target declarations a visitor created for the Clang declaration d.
CreatedFrom(d) == {id \in DOMAIN heap : heap[id].from = d}

\* The Clang declaration whose conversion made the declaration a thunk wraps.
AccessorOf(thunk) == IF thunk = NoDecl THEN "" ELSE heap[heap[thunk].thunkOf].from

\* The subscript declarations built from a getter made for g and a setter
\* made for s.
SubscriptsOf(g, s) ==
  {id \in DOMAIN heap : /\ heap[id].kind = "subscript"
                        /\ AccessorOf(heap[id].getter) = g
                        /\ AccessorOf(heap[id].setter) = s}

\* Every type of the method is a builtin type, which translates to itself.
BuiltinTyped(m) == \A i \in DOMAIN FunctionTypes(m) : FunctionTypes(m)[i].k = "builtin"
ResultType(m) == BuiltinType(Decl[m].type.n)
ParamTypes(m) == [i \in 1..Len(Decl[m].params) |-> BuiltinType(Decl[m].params[i].n)]

\* A type of the method has no translation.
Untranslatable(m) == \E i \in DOMAIN FunctionTypes(m) : FunctionTypes(m)[i].k = "bad"

\* g and s are the get and set accessors of one subscripting pair, declared by
\* the same interface, with equal index types and the setter's value type
\* equal to the getter's element type, and both translate.
MatchingPair(g, s) ==
  /\ Decl[g].kind = "method" /\ Decl[s].kind = "method"
  /\ Decl[g].parent = Decl[s].parent
  /\ Decl[Decl[g].parent].kind = "interface"
  /\ Decl[g].inst /\ Decl[s].inst
  /\ Decl[g].family = "none" /\ Decl[s].family = "none"
  /\ Decl[g].sel \in GetterSelectors
  /\ Decl[s].sel = Counterpart(Decl[g].sel)
  /\ BuiltinTyped(g) /\ BuiltinTyped(s)
  /\ Len(Decl[g].params) = 1
  /\ Decl[s].params = <<Decl[g].type, Decl[g].params[1]>>

\* C1: two importDecl calls on the same declaration, one after the other,
\* return the same instance, and the second creates no declaration.
C1_Idempotent ==
  Returned /\ Top.again => ret.val = Top.res /\ Len(heap) = Top.i

\* The second of two calls has returned an instance.
C1_Witness == Returned /\ Top.again /\ ret.val # NoDecl

\* C2: at most one target declaration is created for a member (field,
\* method, property), also when the import of its container re-enters
\* importDecl for it; the instance the call returns is the one in the cache
\* and the one the container's member list holds for it.
C2_CreatedOnce ==
  \A d \in Decls : Decl[d].kind \in {"field", "method", "property"} =>
    /\ Cardinality(CreatedFrom(d)) <= 1
    /\ Returned /\ Top.d = d /\ ret.val # NoDecl =>
         /\ Cached(d) /\ ImportedDecls[d] = ret.val
         /\ heap[ret.val].dc \in DOMAIN heap =>
              \A id \in Range(heap[heap[ret.val].dc].members) :
                 heap[id].from = d => id = ret.val

\* C3: an entry of ImportedDecls, once written, keeps its value.
C3_CacheStable ==
  [][\A d \in DOMAIN ImportedDecls :
        d \in DOMAIN ImportedDecls' /\ ImportedDecls'[d] = ImportedDecls[d]]_vars

\* The kinds of declaration a forward declaration can stand for.
ForwardKinds == {"record", "enum", "protocol", "interface"}

\* The definition of d converts: d has a name, sits at the top of the
\* translation unit, and what its conversion imports first converts as well.
RECURSIVE Converts(_)
Converts(d) ==
  /\ HasDefinition(d)
  /\ HasName(d)
  /\ Decl[d].parent = "TU"
  /\ Decl[d].kind = "record" => ~Decl[d].union /\ ~Decl[d].interface
  /\ Decl[d].kind = "interface" => Decl[d].super = "" \/ Converts(Decl[d].super)

\* C4, as stated: without a definition the call returns no mapping and
\* leaves no cache entry; the call repeated after the definition has become
\* visible returns a target declaration, which the cache then holds.
C4_AsStated ==
  Returned /\ Decl[Top.d].kind \in ForwardKinds =>
    /\ ~HasDefinition(Top.d) => ret.val = NoDecl /\ ~Cached(Top.d)
    /\ Top.retry => ret.val # NoDecl /\ Cached(Top.d) /\ ImportedDecls[Top.d] = ret.val

\* C4: for a record that is no union and no __interface, an enum, a protocol or an interface:
\* without a definition the call returns no mapping and leaves no cache entry;
\* once the definition is visible the call's result is what the cache holds,
\* and the repeated call returns a target declaration if the definition
\* converts.
C4_ForwardRetry ==
  Returned /\ Decl[Top.d].kind \in ForwardKinds /\ ~Decl[Top.d].union
           /\ ~Decl[Top.d].interface =>
    /\ ~HasDefinition(Top.d) => ret.val = NoDecl /\ ~Cached(Top.d)
    /\ HasDefinition(Top.d) => Cached(Top.d) /\ ImportedDecls[Top.d] = ret.val
    /\ Top.retry /\ Converts(Top.d) => ret.val # NoDecl /\ heap[ret.val].clangNode = Top.d

\* A call repeated after the definition became visible has returned a
\* target declaration.
C4_Witness ==
  Returned /\ Top.retry /\ Decl[Top.d].kind \in ForwardKinds /\ ret.val # NoDecl

\* C5: a declaration of a declined kind is never imported: every call returns
\* no mapping, and its cache entry, if any, is no mapping.
C5_DeclinePermanent ==
  \A d \in Decls : Decl[d].kind \in DeclinedKinds =>
    /\ Cached(d) => ImportedDecls[d] = NoDecl
    /\ Returned /\ Top.d = d => ret.val = NoDecl

\* A namespace is declined again after other declarations were imported.
C5_Witness ==
  /\ Returned /\ Decl[Top.d].kind \in DeclinedKinds /\ Top.again
  /\ \E e \in DOMAIN ImportedDecls : ImportedDecls[e] # NoDecl

\* C6: every call returns to the client.
C6_Terminates == (stack # <<>>) ~> Returned

\* A call through a cycle has returned: a record with a member of its own
\* type, an enum with its enumerators, a subscript with both accessors, a
\* method with the method it overrides.
C6_Witness ==
  /\ Returned
  /\ \/ \E id \in DOMAIN heap : heap[id].kind = "var" /\ heap[id].type = DeclaredType(heap[id].dc)
     \/ \E id \in DOMAIN heap : heap[id].kind = "subscript" /\ heap[id].setter # NoDecl
     \/ \E id \in DOMAIN heap : heap[id].kind = "func" /\ heap[id].overridden # NoDecl

\* C8: once both accessors of a matching pair are imported, in either order,
\* there is exactly one subscript declaration for the pair, it has a getter
\* and a setter thunk, and Subscripts holds it under the (getter, setter) key.
C8_OneSubscript ==
  \A g, s \in Decls :
    /\ stack = <<>>
    /\ last.d \in {g, s}
    /\ MatchingPair(g, s)
    /\ Cached(g) /\ ImportedDecls[g] # NoDecl
    /\ Cached(s) /\ ImportedDecls[s] # NoDecl
    => /\ Cardinality(SubscriptsOf(g, s)) = 1
       /\ <<ImportedDecls[g], ImportedDecls[s]>> \in DOMAIN Subscripts
       /\ Subscripts[<<ImportedDecls[g], ImportedDecls[s]>>] \in SubscriptsOf(g, s)

\* The places of the subscript declarations in the member list of a class.
SubscriptMembers(c) ==
  {i \in DOMAIN heap[c].members : heap[heap[c].members[i]].kind = "subscript"}

\* The matching pairs an interface declares.
PairsOf(c) == {p \in Range(Decl[c].members) \X Range(Decl[c].members) : MatchingPair(p[1], p[2])}

\* C9: the class made for an interface that declares both accessors of a
\* subscripting pair has exactly one subscript in its member list for the
\* pair, with one index parameter and the getter's result type as its element
\* type.
C9_SingleSubscriptMember ==
  \A c \in DOMAIN heap :
    heap[c].kind = "class" /\ heap[c].hasMembers /\ PairsOf(heap[c].clangNode) # {} =>
      /\ Cardinality(SubscriptMembers(c)) = Cardinality(PairsOf(heap[c].clangNode))
      /\ \A i \in SubscriptMembers(c) :
           LET sub == heap[heap[c].members[i]]
           IN /\ Len(sub.params) = 1
              /\ \E p \in PairsOf(heap[c].clangNode) :
                   /\ AccessorOf(sub.getter) = p[1]
                   /\ AccessorOf(sub.setter) = p[2]
                   /\ sub.type = ResultType(p[1])
                   /\ sub.params = ParamTypes(p[1])

\* The class of an interface with a matching pair is complete.
C9_Witness ==
  \E c \in DOMAIN heap :
    /\ heap[c].kind = "class" /\ heap[c].hasMembers
    /\ PairsOf(heap[c].clangNode) # {}
    /\ SubscriptMembers(c) # {}

\* The instance methods with the getter's selector that the setter's
\* interface, its protocols, categories and superclasses declare.
GetterCandidates(m) ==
  {g \in Decls :
     /\ Decl[g].kind = "method" /\ Decl[g].inst
     /\ Decl[g].sel = Counterpart(Decl[m].sel)
     /\ \E i \in DOMAIN ClassLookupOrder(Decl[m].parent) :
          g \in Range(MembersOf(ClassLookupOrder(Decl[m].parent)[i]))}

\* A setter of a subscripting pair whose interface offers no getter for it,
\* or a getter that does not translate.
LoneSetter(m) ==
  /\ Decl[m].kind = "method"
  /\ IsSubscriptAccessor(m)
  /\ Decl[m].sel \notin GetterSelectors
  /\ Decl[Decl[m].parent].kind = "interface"
  /\ \A g \in GetterCandidates(m) : Untranslatable(g)

\* C10: for a lone setter importSubscript returns no subscript, no subscript
\* is built on it, Subscripts holds none under a key with it, and importDecl
\* still returns the imported setter method.
C10_LoneSetterRejected ==
  \A m \in Decls : LoneSetter(m) =>
    /\ At("VisitObjCMethodDecl", "special") /\ Top.d = m => ret.val = NoDecl
    /\ At("importObjCMembers", "special") /\ heap[Top.x].from = m => ret.val = NoDecl
    /\ \A id \in DOMAIN heap : heap[id].kind = "subscript" => AccessorOf(heap[id].setter) # m
    /\ \A k \in DOMAIN Subscripts :
         k[2] # NoDecl /\ heap[k[2]].from = m => Subscripts[k] = NoDecl
    /\ Returned /\ Top.d = m =>
         /\ ret.val # NoDecl
         /\ heap[ret.val].kind = "func"
         /\ heap[ret.val].from = m

\* importSubscript has declined a lone setter, and the setter is returned.
C10_Witness ==
  /\ Returned /\ LoneSetter(Top.d) /\ ret.val # NoDecl
  /\ \A id \in DOMAIN heap : heap[id].kind # "subscript"


---------------------------------------------------------------------------
(* C11: initializer recognition. *)

\* The rule as the specification words it: an instance method whose
\* selector's first component is "init" alone or "init" followed by a
\* character that is not a lowercase letter.
LowercaseLetters ==
  {"a", "b", "c", "d", "e", "f", "g", "h", "i", "j", "k", "l", "m",
   "n", "o", "p", "q", "r", "s", "t", "u", "v", "w", "x", "y", "z"}
InitRule(m) ==
  /\ Decl[m].inst
  /\ LET first == NameForSlot0(Decl[m].sel)
     IN /\ Len(first) >= 4
        /\ SubSeq(first, 1, 4) = "init"
        /\ Len(first) > 4 => SubSeq(first, 5, 5) \notin LowercaseLetters

\* C11: when importSpecialMethod looks at a method of the init family, it
\* goes on to importConstructor exactly when the method is an instance
\* method whose first selector component starts with the whole word "init";
\* "init" and "initWithCapacity" are recognised, "initialize" and every
\* class method are not.
C11_InitRecognition ==
  [][ ( /\ At("importSpecialMethod", "start")
        /\ heap[Top.x].clangNode # ""
        /\ Decl[heap[Top.x].clangNode].kind = "method"
        /\ Decl[heap[Top.x].clangNode].family = "init" )
      => ( (stack' # <<>> /\ Top'.fn = "importConstructor")
           <=> InitRule(heap[Top.x].clangNode) ) ]_vars

\* importConstructor runs for -initX of Store after -initialize was imported
\* as a plain method without a constructor.
C11_Witness ==
  /\ At("importConstructor", "start")
  /\ Top.d = "Store.initX"
  /\ \E id \in DOMAIN heap :
       heap[id].kind = "constructor" /\ heap[id].clangNode = "Store.initWithCapacity"
  /\ \E id \in DOMAIN heap : heap[id].clangNode = "Store.initialize"
  /\ \A id \in DOMAIN heap :
       heap[id].kind = "constructor" =>
         heap[id].clangNode \notin {"Store.initialize", "Store.classInit", "Store._init", "Store.ini"}

---------------------------------------------------------------------------
(* C12-C15: typedefs and the well-known types. *)

\* The typedefs of the translation unit.
Typedefs == {d \in TUDecls[tu] : Decl[d].kind = "typedef"}

\* The table entry a typedef at translation-unit scope matches by name.
Matches(d) == Decl[d].parent = "TU" /\ Decl[d].ident \in DOMAIN MappedTypes
EntryOf(d) == MappedTypes[Decl[d].ident]

\* The kinds of entry and the underlying types that pass the shape check of
\* each kind as getSwiftStdlibType performs it; what the check of the
\* selector kind ought to admit is the subject of C23.
WellShaped ==
  { <<"UnsignedInt", "unsigned int">>, <<"UnsignedInt", "unsigned long">>,
    <<"UnsignedInt", "unsigned __int128">>, <<"SignedInt", "int">>,
    <<"SignedInt", "signed char">>, <<"FloatIEEEsingle", "float">>,
    <<"FloatIEEEdouble", "double">>, <<"ObjCBool", "signed char">>,
    <<"ObjCSel", "SEL">>, <<"ObjCSel", "unsigned long">> }
BitsOf == ( "int" :> 32 @@ "unsigned int" :> 32 @@ "unsigned long" :> 64 @@
            "unsigned __int128" :> 128 @@ "signed char" :> 8 @@ "float" :> 32 @@
            "double" :> 64 @@ "SEL" :> 64 @@ "char *" :> 64 )

\* A property check of the matched entry fails: the language mode, the bit
\* width, or the shape.
CheckFails(d) ==
  /\ Matches(d)
  /\ \/ EntryOf(d).Languages = "ObjC1" /\ tu \in {"mistyped", "mistyped-nomodule"}
     \/ EntryOf(d).Bitwidth # 0 /\ EntryOf(d).Bitwidth # BitsOf[Decl[d].type.n]
     \/ <<EntryOf(d).CTypeKind, Decl[d].type.n>> \notin WellShaped

\* The library module of the entry is loaded; the library type is declared.
ModuleLocated(d) == EntryOf(d).SwiftModuleName \in Environment[tu].modules
TypeLocated(d) ==
  \E i \in 1..Len(Environment[tu].types) :
    /\ Environment[tu].types[i].name = EntryOf(d).SwiftTypeName
    /\ Environment[tu].types[i].dc =
         (IF EntryOf(d).SwiftModuleName = "swift" THEN SwiftModuleDC ELSE ObjectiveCModuleDC)

\* The typedef stands for a library type.
Resolves(d) == Matches(d) /\ ~CheckFails(d) /\ ModuleLocated(d) /\ TypeLocated(d)

\* The alias importDecl returned for d has the aliased type ty and is d's.
ReturnedAlias(d, ty) ==
  /\ ret.val # NoDecl
  /\ heap[ret.val].kind = "typealias"
  /\ heap[ret.val].from = d
  /\ heap[ret.val].name = Decl[d].ident
  /\ heap[ret.val].type = ty

\* C12: when a typedef's name matches a table entry and a property check
\* fails, getSwiftStdlibType returns the empty result without the error
\* flag, whether or not the library module and type can be located, and
\* importDecl returns an alias of the translated underlying type.
C12_CheckFailureNoError ==
  \A d \in Typedefs :
    CheckFails(d) =>
      /\ getSwiftStdlibType(d) = [type |-> NoType, name |-> "", IsError |-> FALSE]
      /\ Returned /\ Top.d = d /\ Decl[d].type.k = "builtin" =>
           ReturnedAlias(d, BuiltinType(Decl[d].type.n))

\* uint32_t of 64 bits was imported while no library module is loaded.
C12_Witness ==
  /\ Returned
  /\ tu = "mistyped-nomodule"
  /\ Top.d = "wide.uint32_t"
  /\ CheckFails("wide.uint32_t")
  /\ ~ModuleLocated("wide.uint32_t")
  /\ ReturnedAlias("wide.uint32_t", BuiltinType("unsigned long"))

\* C13 as stated: getSwiftStdlibType sets the error flag exactly when the
\* name matches an entry, every check passes, and the library module or the
\* library type cannot be located; it then returns no type.
C13_AsStated ==
  \A d \in Typedefs :
    /\ getSwiftStdlibType(d).IsError <=>
         (Matches(d) /\ ~CheckFails(d) /\ (~ModuleLocated(d) \/ ~TypeLocated(d)))
    /\ getSwiftStdlibType(d).IsError => getSwiftStdlibType(d).type = NoType

\* C13: getSwiftStdlibType sets the error flag exactly when the name matches
\* an entry, every check passes, and the library module cannot be located or
\* the library type cannot be located and the entry does not allow it to be
\* missing; it then returns no type.
C13_HardError ==
  \A d \in Typedefs :
    /\ getSwiftStdlibType(d).IsError <=>
         /\ Matches(d)
         /\ ~CheckFails(d)
         /\ \/ ~ModuleLocated(d)
            \/ ~TypeLocated(d) /\ ~EntryOf(d).CanBeMissing
    /\ getSwiftStdlibType(d).IsError => getSwiftStdlibType(d).type = NoType

\* VisitTypedefNameDecl has the result of getSwiftStdlibType for uint32_t
\* while the library lacks UInt32: the flag is set.
C13_Witness ==
  /\ At("VisitTypedefNameDecl", "dc")
  /\ tu = "typedefs-notype"
  /\ Top.d = "uint32_t"
  /\ ModuleLocated("uint32_t") /\ ~TypeLocated("uint32_t")
  /\ getSwiftStdlibType("uint32_t").IsError

\* C14: when getSwiftStdlibType raises the error flag for a typedef, what
\* importDecl returns and records differs from what it returns and records
\* for a declaration it declines: it is not a null result with a null entry
\* in ImportedDecls.
C14_HardErrorDistinct ==
  \A d \in Typedefs :
    (Returned /\ Top.d = d /\ Matches(d) /\ getSwiftStdlibType(d).IsError) =>
      ~( /\ ret.val = NoDecl
         /\ ~ret.fwd
         /\ d \in DOMAIN ImportedDecls
         /\ ImportedDecls[d] = NoDecl )

\* C15 as stated: a typedef at translation-unit scope that stands for a
\* library type of its own name imports as that type's declaration and no
\* alias is created; any other typedef that imports yields a new alias of
\* the translation of its underlying type.
C15_AsStated ==
  \A d \in Typedefs :
    (Returned /\ Top.d = d /\ ret.val # NoDecl /\ Decl[d].type.k = "builtin") =>
      IF Resolves(d) /\ Decl[d].ident = EntryOf(d).SwiftTypeName
      THEN /\ ret.val \in 1..Len(Environment[tu].types)
           /\ heap[ret.val].name = Decl[d].ident
           /\ heap[ret.val].dc = SwiftModuleDC
           /\ CreatedFrom(d) = {}
      ELSE ReturnedAlias(d, BuiltinType(Decl[d].type.n))

\* C15: a typedef at translation-unit scope that stands for a library type
\* of its own name imports as that type's declaration and no alias is
\* created; one that stands for a library type of another name yields a new
\* alias of the library type; any other typedef that imports yields a new
\* alias of the translation of its underlying type.
C15_TypedefImport ==
  \A d \in Typedefs :
    (Returned /\ Top.d = d /\ ret.val # NoDecl /\ Decl[d].type.k = "builtin") =>
      IF Resolves(d) /\ Decl[d].ident = EntryOf(d).SwiftTypeName
      THEN /\ ret.val \in 1..Len(Environment[tu].types)
           /\ heap[ret.val].name = Decl[d].ident
           /\ heap[ret.val].dc = SwiftModuleDC
           /\ CreatedFrom(d) = {}
      ELSE IF Resolves(d)
      THEN \E i \in 1..Len(Environment[tu].types) :
             /\ heap[i].name = EntryOf(d).SwiftTypeName
             /\ ReturnedAlias(d, DeclaredType(i))
      ELSE ReturnedAlias(d, BuiltinType(Decl[d].type.n))

\* Float32 was imported as the library's Float32 after uint32_t was imported
\* as an alias of the library's UInt32.
C15_Witness ==
  /\ Returned
  /\ tu = "typedefs"
  /\ Top.d = "Float32"
  /\ ret.val \in 1..Len(Environment[tu].types)
  /\ heap[ret.val].name = "Float32"
  /\ "uint32_t" \in DOMAIN ImportedDecls
  /\ ImportedDecls["uint32_t"] # NoDecl
  /\ heap[ImportedDecls["uint32_t"]].kind = "typealias"

---------------------------------------------------------------------------
(* C16: the classification of enums. *)

Enums == {d \in TUDecls[tu] : Decl[d].kind = "enum"}

\* The enum has neither a declared name nor a typedef name, or the name it
\* has imports as empty.
BareConstants(e) ==
  \/ Decl[e].anon /\ Decl[e].typedefName = ""
  \/ ~Decl[e].named

\* The Swift types made for the enum e.
TypesFor(e) == {id \in DOMAIN heap : heap[id].kind \in NominalKinds /\ heap[id].name = e}

\* C16: classifyEnum answers 'Constants' exactly for an enum that has neither a
\* declared name nor a typedef name or whose name imports as empty, 'Options'
\* for every other enum and never 'Enum'; an enum classified 'Constants' is
\* imported as no declaration and no type is ever made for it.
C16_EnumClassification ==
  \A e \in Enums :
    /\ classifyEnum(e) = (IF BareConstants(e) THEN "Constants" ELSE "Options")
    /\ classifyEnum(e) # "Enum"
    /\ BareConstants(e) =>
         /\ TypesFor(e) = {}
         /\ CreatedFrom(e) = {}
         /\ e \in DOMAIN ImportedDecls => ImportedDecls[e] = NoDecl
         /\ (Returned /\ Top.d = e) => ret.val = NoDecl

\* The import of an enum without any name has returned, after its enumerator
\* was imported as a constant of the underlying integer type.
C16_Witness ==
  /\ Returned
  /\ Top.d \in Enums
  /\ Decl[Top.d].anon /\ Decl[Top.d].typedefName = ""
  /\ ret.val = NoDecl
  /\ \E c \in Range(Decl[Top.d].members) :
       \E id \in CreatedFrom(c) : heap[id].type = BuiltinType(Decl[Top.d].type.n)

---------------------------------------------------------------------------
(* C17: the import of an option-set enum. *)

\* The named enums whose definition is visible throughout.
OptionEnums == {e \in Enums : ~BareConstants(e) /\ ~Decl[e].late}

Enumerators(e) == Range(Decl[e].members)

\* The members of the struct s that are stored variables, and its constructors.
StoredMembers(s) ==
  {i \in DOMAIN heap[s].members :
     heap[heap[s].members[i]].kind = "var" /\ heap[heap[s].members[i]].getter = NoDecl}
ConstructorMembers(s) ==
  {i \in DOMAIN heap[s].members : heap[heap[s].members[i]].kind = "constructor"}

\* The struct s is the option set of the enum e.
OptionSetShape(e, s) ==
  LET underlying == BuiltinType(Decl[e].type.n)
  IN /\ heap[s].kind = "struct"
     /\ heap[s].name = e
     /\ Cardinality(StoredMembers(s)) = 1
     /\ \A i \in StoredMembers(s) : heap[heap[s].members[i]].type = underlying
     /\ Cardinality(ConstructorMembers(s)) = 1
     /\ \A i \in ConstructorMembers(s) : heap[heap[s].members[i]].params = <<underlying>>

\* The declaration k is the constant of the enumerator c, of the struct s.
OptionConstant(c, s, k) ==
  /\ heap[k].kind = "var"
  /\ heap[k].type = DeclaredType(s)
  /\ heap[k].value = Decl[c].value
  /\ heap[k].convert = "Construction"

\* C17: when the import of an option-set enum or of one of its enumerators has
\* returned, there is exactly one struct with the enum's name, it has exactly
\* one stored member, of the underlying integer type, and exactly one
\* constructor, with one parameter of that type; every enumerator has exactly
\* one constant, of the struct's type and constructed from its literal value,
\* so N enumerators have N constants; the call returns the struct or the
\* enumerator's constant.
C17_OptionSetImport ==
  \A e \in OptionEnums :
    (Returned /\ Top.d \in {e} \cup Enumerators(e)) =>
      /\ Cardinality(TypesFor(e)) = 1
      /\ \A s \in TypesFor(e) :
           /\ OptionSetShape(e, s)
           /\ Top.d = e => ret.val = s
           /\ \A c \in Enumerators(e) :
                /\ Cardinality(CreatedFrom(c)) = 1
                /\ \A k \in CreatedFrom(c) :
                     /\ OptionConstant(c, s, k)
                     /\ Top.d = c => ret.val = k
           /\ Cardinality({k \in DOMAIN heap : heap[k].kind = "var"
                                               /\ heap[k].type = DeclaredType(s)})
                = Len(Decl[e].members)

\* An enumerator of an option-set enum with two enumerators was requested
\* before anything else was imported, and the call has returned its constant.
C17_Witness ==
  /\ Returned
  /\ Top.i = 0
  /\ Decl[Top.d].kind = "enumconstant"
  /\ Decl[Top.d].parent \in OptionEnums
  /\ Len(Decl[Decl[Top.d].parent].members) = 2
  /\ ret.val \in CreatedFrom(Top.d)
  /\ \A c \in Enumerators(Decl[Top.d].parent) : CreatedFrom(c) # {}

---------------------------------------------------------------------------
(* C18: what is registered as an external definition. *)

\* The declarations the importer has created (the library's own types precede
\* them on the heap).
Produced == {id \in DOMAIN heap : id > Len(Env.types)}

\* The kinds of target declaration the claim lists.
ListedKinds == {"typealias", "struct", "class", "protocol", "extension", "func",
                "var", "constructor", "subscript"}

\* The declaration is a struct made from a record, a protocol, a constructor
\* or the getter of a constant.
RegisteredOnCreation(id) ==
  \/ heap[id].kind = "struct" /\ heap[id].from # "" /\ Decl[heap[id].from].kind = "record"
  \/ heap[id].kind \in {"protocol", "constructor"}
  \/ \E k \in Produced : heap[k].kind = "var" /\ heap[k].convert # "" /\ heap[k].getter = id

\* C18 as stated: when an import has returned, every declaration it produced
\* (type alias, struct, class, protocol, extension, function, variable,
\* constructor, subscript) is in the external-declarations root set.
C18_AsStated ==
  Returned =>
    \A id \in Produced : heap[id].kind \in ListedKinds => id \in externalDecls

\* C18: when an import has returned, every struct made from a record, every
\* protocol, every constructor and the getter of every constant that was
\* produced is in the external-declarations root set, and so is the class the
\* import returned or the cache holds.
C18_Registration ==
  Returned =>
    /\ \A id \in Produced : RegisteredOnCreation(id) => id \in externalDecls
    /\ (ret.val # NoDecl /\ heap[ret.val].kind = "class") => ret.val \in externalDecls
    /\ \A d \in DOMAIN ImportedDecls :
         (ImportedDecls[d] # NoDecl /\ heap[ImportedDecls[d]].kind = "class")
           => ImportedDecls[d] \in externalDecls

\* The import of a class has returned the class, with a constructor among the
\* declarations produced.
C18_Witness ==
  /\ Returned
  /\ ret.val # NoDecl
  /\ heap[ret.val].kind = "class"
  /\ ret.val \in externalDecls
  /\ \E id \in Produced : heap[id].kind = "constructor" /\ heap[id].dc = ret.val
                          /\ id \in externalDecls

---------------------------------------------------------------------------
(* C19: the member list of an imported record. *)

\* The structs made from records whose member list has been set.
RecordStructs ==
  {s \in Produced : /\ heap[s].kind = "struct"
                    /\ heap[s].from # ""
                    /\ Decl[heap[s].from].kind = "record"
                    /\ heap[s].hasMembers}

\* The positions in the record r of the members a member list holds.
RECURSIVE PositionsOf(_, _)
PositionsOf(r, members) ==
  IF members = <<>> THEN <<>>
  ELSE LET m == Head(members)
           at == IF m \in DOMAIN heap
                 THEN {i \in DOMAIN Decl[r].members : Decl[r].members[i] = heap[m].from}
                 ELSE {}
       IN << IF at = {} THEN 0 ELSE CHOOSE i \in at : TRUE >>
          \o PositionsOf(r, Tail(members))

\* The member was imported into the struct s: a declaration made from it, in s,
\* exists.
ImportedInto(m, s) == \E id \in CreatedFrom(m) : heap[id].dc = s

\* An anonymous struct or union, as a field or as a type, or a declaration
\* without a name.
Unnamed(m) ==
  \/ Decl[m].anonymousStructOrUnion
  \/ Decl[m].kind = "staticassert"

\* C19: the member list of a struct made from a record holds, in the order of
\* the record's declarations, one declaration for every member that imported,
\* and nothing else: a member that did not import is left out, as are fields
\* that are anonymous structs or unions; and the record whose import returns a
\* struct is cached as that struct.
C19_RecordMembers ==
  /\ \A s \in RecordStructs :
       LET r == heap[s].from
           at == PositionsOf(r, heap[s].members)
       IN /\ \A i \in DOMAIN at : at[i] # 0
          /\ \A i, j \in DOMAIN at : i < j => at[i] < at[j]
          /\ \A i \in DOMAIN Decl[r].members :
               LET m == Decl[r].members[i]
               IN /\ ImportedInto(m, s) => \E k \in DOMAIN at : at[k] = i
                  /\ Unnamed(m) => \A k \in DOMAIN at : at[k] # i
                  /\ CreatedFrom(m) = {} => \A k \in DOMAIN at : at[k] # i
  /\ (Returned /\ Decl[Top.d].kind = "record" /\ ret.val # NoDecl) =>
       /\ ret.val \in RecordStructs
       /\ ImportedDecls[Top.d] = ret.val

\* The import of a record has returned a struct with two members, although a
\* member between them failed to import and another is an anonymous struct.
C19_Witness ==
  /\ Returned
  /\ Decl[Top.d].kind = "record"
  /\ ret.val \in RecordStructs
  /\ Len(heap[ret.val].members) = 2
  /\ \E m \in Range(Decl[Top.d].members) :
       /\ Decl[m].kind = "field" /\ ~Unnamed(m) /\ CreatedFrom(m) = {}
       /\ Cached(m) /\ ImportedDecls[m] = NoDecl
  /\ \E m \in Range(Decl[Top.d].members) :
       Decl[m].kind = "field" /\ Decl[m].anonymousStructOrUnion /\ ~Cached(m)

---------------------------------------------------------------------------
(* C20: the synthesis of constructors. *)

\* The Clang class of the context dc: the class itself, or the class an
\* extension extends; "" for any other context.
MirrorClass(dc) ==
  IF dc \notin DOMAIN heap THEN ""
  ELSE IF heap[dc].kind = "class" THEN heap[dc].clangNode
  ELSE IF heap[dc].kind = "extension" THEN heap[heap[dc].type.id].clangNode
  ELSE ""

\* The concrete interface of the initializer m imported into dc: for a
\* protocol's method the class it is mirrored into.
ConcreteInterface(m, dc) ==
  IF Decl[Decl[m].parent].kind = "protocol" THEN MirrorClass(dc)
  ELSE IF Decl[Decl[m].parent].kind = "category" THEN Decl[Decl[m].parent].cls
  ELSE Decl[m].parent

\* The parameterless class method alloc of the concrete interface, or "".
AllocOf(m, dc) == lookupClassMethod(ConcreteInterface(m, dc), "alloc")

\* The Objective-C constructors.
Constructors ==
  {k \in Produced : heap[k].kind = "constructor" /\ heap[k].clangNode # ""}

\* The constructor k is made from a recognised initializer, calls the imported
\* alloc of its concrete interface, returns the enclosing class type and takes
\* the initializer's parameters.
WellFormedConstructor(k) ==
  LET m == heap[k].clangNode
      dc == heap[k].dc
      a == AllocOf(m, dc)
      cls == IF heap[dc].kind = "extension" THEN heap[dc].type.id ELSE dc
  IN /\ Decl[m].family = "init" /\ InitRule(m)
     /\ a # ""
     /\ ~Decl[a].inst /\ Decl[a].params = <<>>
     /\ heap[k].alloc \in CreatedFrom(a)
     /\ heap[cls].kind = "class"
     /\ heap[k].type = DeclaredType(cls)
     /\ heap[k].type # BuiltinType(Decl[m].type.n)
     /\ heap[k].params = ParamTypes(m)

\* importConstructor returns.
ConstructorReturns ==
  /\ stack # <<>>
  /\ Top.fn = "importConstructor"
  /\ Len(stack') < Len(stack)

\* C20: importConstructor returns a constructor exactly when the parameterless
\* class method alloc is found on the concrete interface (for a protocol's
\* method, on the class it is mirrored into) and has imported; otherwise it
\* returns no mapping and creates nothing; every constructor returns the
\* enclosing class type, not the method's declared result type, and takes the
\* initializer's parameters.
C20_ConstructorSynthesis ==
  /\ [](\A k \in Constructors : WellFormedConstructor(k))
  /\ [][ ConstructorReturns =>
           LET a == AllocOf(Top.d, Top.dc)
           IN /\ ret'.val # NoDecl <=>
                   (a # "" /\ Cached(a) /\ ImportedDecls[a] # NoDecl)
              /\ ret'.val # NoDecl =>
                   /\ Len(heap') = Len(heap) + 1
                   /\ ret'.val = Len(heap')
                   /\ heap'[ret'.val].kind = "constructor"
                   /\ heap'[ret'.val].clangNode = Top.d
              /\ ret'.val = NoDecl => heap' = heap ]_vars

\* A constructor exists for a protocol's initializer mirrored into a class,
\* after the same initializer gave no constructor in the protocol itself.
C20_Witness ==
  /\ \E k \in Constructors :
       /\ Decl[Decl[heap[k].clangNode].parent].kind = "protocol"
       /\ heap[k].params = <<BuiltinType("int")>>
       /\ \E f \in CreatedFrom(heap[k].clangNode) :
            heap[f].kind = "func" /\ heap[f].dc # heap[k].dc
                                  /\ heap[heap[f].dc].kind = "protocol"
  /\ Returned

---------------------------------------------------------------------------
(* C21: inherited constructors and mirrored members of classes and         *)
(* categories.                                                             *)

\* The superclasses of the Clang class c.
RECURSIVE SuperChain(_)
SuperChain(c) ==
  IF Decl[c].super = "" THEN {} ELSE {Decl[c].super} \cup SuperChain(Decl[c].super)

\* The class c and its categories.
ContainersOf(c) ==
  {c} \cup {k \in Decls : Decl[k].kind = "category" /\ Decl[k].cls = c}

\* The class c or one of its categories declares a method of that selector
\* and receiver kind.
DeclaresSel(c, sel, inst) ==
  \E k \in ContainersOf(c) : \E m \in Range(Decl[k].members) :
    Decl[m].kind = "method" /\ Decl[m].sel = sel /\ Decl[m].inst = inst

\* The recognised initializers the class c inherits: those of its
\* superclasses and their categories that c does not declare itself.
InheritableInits(c) ==
  {m \in Decls : /\ Decl[m].kind = "method"
                 /\ Decl[m].family = "init"
                 /\ InitRule(m)
                 /\ \E sc \in SuperChain(c) : Decl[m].parent \in ContainersOf(sc)
                 /\ ~DeclaresSel(c, Decl[m].sel, Decl[m].inst)}

\* The declaration imported for d is cached.
Imported(d) == d # "" /\ Cached(d) /\ ImportedDecls[d] # NoDecl

\* The member list of s holds a constructor for the inherited initializer m.
HasInheritedConstructor(s, m) ==
  \E i \in DOMAIN heap[s].members :
    LET k == heap[s].members[i]
    IN /\ heap[k].kind = "constructor"
       /\ heap[k].dc = s
       /\ heap[k].clangNode # ""
       /\ Decl[heap[k].clangNode].sel = Decl[m].sel

\* The member list of s holds no constructor of a superclass's initializer.
NoInheritedConstructor(s, c) ==
  \A i \in DOMAIN heap[s].members :
    heap[heap[s].members[i]].kind = "constructor"
      => heap[heap[s].members[i]].clangNode \notin InheritableInits(c)

\* The member list of s, made from the Clang container d, holds a copy of
\* every method of its protocols that d does not declare.
HasMirroredMembers(s, d) ==
  \A i \in DOMAIN heap[s].protocols :
    \A j \in DOMAIN heap[heap[s].protocols[i]].members :
      LET f == heap[heap[heap[s].protocols[i]].members[j]]
      IN ( /\ f.kind = "func"
           /\ f.clangNode # ""
           /\ ~\E m \in Range(Decl[d].members) :
                 /\ Decl[m].kind = "method"
                 /\ Decl[m].sel = Decl[f.clangNode].sel
                 /\ Decl[m].inst = Decl[f.clangNode].inst )
         => \E n \in DOMAIN heap[s].members :
              /\ heap[heap[s].members[n]].kind = "func"
              /\ heap[heap[s].members[n]].clangNode = f.clangNode
              /\ heap[heap[s].members[n]].dc = s

\* The classes and the extensions whose member list has been set.
FinishedClasses ==
  {s \in Produced : heap[s].kind = "class" /\ heap[s].hasMembers}
FinishedExtensions ==
  {s \in Produced : heap[s].kind = "extension" /\ heap[s].hasMembers}

\* The member list of a finished class holds the constructors it inherits.
ClassInherits(s) ==
  \A m \in InheritableInits(heap[s].clangNode) :
    (Imported(m) /\ Imported(AllocOf(m, s))) => HasInheritedConstructor(s, m)

\* C21 as stated: the member list of a class and that of an extension made
\* from a category both hold the constructors inherited from the superclass
\* chain and the mirrored members of their protocols.
C21_AsStated ==
  /\ \A s \in FinishedClasses :
       ClassInherits(s) /\ HasMirroredMembers(s, heap[s].clangNode)
  /\ \A s \in FinishedExtensions :
       /\ \A m \in InheritableInits(Decl[heap[s].clangNode].cls) :
            (Imported(m) /\ Imported(AllocOf(m, s))) => HasInheritedConstructor(s, m)
       /\ HasMirroredMembers(s, heap[s].clangNode)

\* C21: the member list of a class holds the constructors inherited from its
\* superclass chain and the mirrored members of its protocols; the member
\* list of an extension made from a category holds the mirrored members of
\* the category's protocols and no inherited constructor.
C21_InheritedAndMirrored ==
  /\ \A s \in FinishedClasses :
       ClassInherits(s) /\ HasMirroredMembers(s, heap[s].clangNode)
  /\ \A s \in FinishedExtensions :
       /\ NoInheritedConstructor(s, Decl[heap[s].clangNode].cls)
       /\ HasMirroredMembers(s, heap[s].clangNode)

\* The import of a category of a subclass has returned: the subclass holds an
\* inherited constructor, the extension a mirrored method and none.
C21_Witness ==
  /\ Returned
  /\ ret.val \in FinishedExtensions
  /\ InheritableInits(Decl[Top.d].cls) # {}
  /\ heap[ret.val].protocols # <<>>
  /\ \E n \in DOMAIN heap[ret.val].members :
       /\ heap[heap[ret.val].members[n]].kind = "func"
       /\ Decl[Decl[heap[heap[ret.val].members[n]].clangNode].parent].kind = "protocol"
  /\ \E s \in FinishedClasses :
       /\ heap[s].clangNode = Decl[Top.d].cls
       /\ \E m \in InheritableInits(Decl[Top.d].cls) : HasInheritedConstructor(s, m)

---------------------------------------------------------------------------
(* C22: the cache of mirrored imports. *)

\* importMirroredDecl returns for a method.
MirroredReturns ==
  /\ stack # <<>>
  /\ Top.fn = "importMirroredDecl"
  /\ Top.d # ""
  /\ Len(stack') < Len(stack)

\* C22: a call of importMirroredDecl(m, dc) that follows one with the same m
\* and dc returns what that one returned and creates nothing, and every call
\* leaves its result under (m, dc); the declarations held under two keys that
\* differ are distinct, and each has the dc of its key as declaration context.
C22_MirroredCache ==
  /\ [][ MirroredReturns =>
           /\ <<Top.d, Top.dc>> \in DOMAIN ImportedProtocolDecls =>
                /\ ret'.val = ImportedProtocolDecls[<<Top.d, Top.dc>>]
                /\ heap' = heap
           /\ <<Top.d, Top.dc>> \in DOMAIN ImportedProtocolDecls'
           /\ ImportedProtocolDecls'[<<Top.d, Top.dc>>] = ret'.val ]_vars
  /\ [](\A k1, k2 \in DOMAIN ImportedProtocolDecls :
          ImportedProtocolDecls[k1] # NoDecl =>
            /\ heap[ImportedProtocolDecls[k1]].dc = k1[2]
            /\ heap[ImportedProtocolDecls[k1]].clangNode = k1[1]
            /\ k1 # k2 => ImportedProtocolDecls[k1] # ImportedProtocolDecls[k2])

\* importMirroredDecl is called again for a method and a class it was
\* mirrored into before, while the method is also mirrored into another class.
C22_Witness ==
  /\ At("importMirroredDecl", "start")
  /\ <<Top.d, Top.dc>> \in DOMAIN ImportedProtocolDecls
  /\ ImportedProtocolDecls[<<Top.d, Top.dc>>] # NoDecl
  /\ \E k \in DOMAIN ImportedProtocolDecls :
       /\ k[1] = Top.d
       /\ k[2] # Top.dc
       /\ ImportedProtocolDecls[k] # NoDecl

---------------------------------------------------------------------------
(* C23: the shape check of the selector kind. *)

\* The underlying type of the typedef is a pointer to the selector builtin.
PointsToSelector(d) == Decl[d].type.n = "SEL"

\* C23: when VisitTypedefNameDecl consults getSwiftStdlibType, a typedef
\* whose name matches an entry of the selector kind resolves to a library
\* type only when its underlying type is a pointer to the
\* selector builtin; for any other underlying type getSwiftStdlibType
\* returns the empty result without the error flag.
C23_SelectorShape ==
  \A d \in Typedefs :
    (/\ At("VisitTypedefNameDecl", "dc")
     /\ Top.d = d
     /\ Matches(d)
     /\ EntryOf(d).CTypeKind = "ObjCSel") =>
      /\ getSwiftStdlibType(d).type # NoType => PointsToSelector(d)
      /\ ~PointsToSelector(d) =>
           getSwiftStdlibType(d) = [type |-> NoType, name |-> "", IsError |-> FALSE]

---------------------------------------------------------------------------
(* C24: the override link of a method. *)

\* The method with the selector and the receiver kind of m that a lookup from
\* the superclass of class c finds, "" for none.
SuperMethod(s, m, c) ==
  IF s.heap[c].super = NoDecl THEN ""
  ELSE lookupMethod(s.heap[s.heap[c].super].clangNode, Decl[m].sel, Decl[m].inst)

\* VisitObjCMethodDecl returns method f of a receiver kind among kinds, made
\* in a class or an extension of a class: a method the superclass has under
\* its selector and receiver kind is imported by now, and f records it if it
\* was imported successfully; f records nothing else.
OverrideLinked(kinds) ==
  LET s == [heap |-> heap', ImportedDecls |-> ImportedDecls',
            ImportedProtocolDecls |-> ImportedProtocolDecls']
      f == ret'.val
      m == Top.d
      c == SelfClass(Top.dc)
      over == SuperMethod(s, m, c)
      key == <<over, s.heap[c].super>>
  IN (/\ stack # <<>>
      /\ Top.fn = "VisitObjCMethodDecl"
      /\ Len(stack') < Len(stack)
      /\ f # NoDecl
      /\ c # NoDecl
      /\ Decl[m].inst \in kinds) =>
       /\ s.heap[f].overridden # NoDecl =>
            /\ over # ""
            /\ s.heap[s.heap[f].overridden].from = over
            /\ s.heap[s.heap[f].overridden].static = s.heap[f].static
       /\ over # "" =>
            IF Decl[Decl[over].parent].kind = "protocol"
            THEN /\ key \in DOMAIN s.ImportedProtocolDecls
                 /\ s.ImportedProtocolDecls[key] # NoDecl =>
                      s.heap[f].overridden = s.ImportedProtocolDecls[key]
            ELSE /\ over \in DOMAIN s.ImportedDecls
                 /\ s.ImportedDecls[over] # NoDecl => s.heap[f].overridden # NoDecl

\* C24: when a method is imported into a class whose superclass chain has a
\* method of the same selector and the same receiver kind, that method is
\* imported before the import returns and, if it imported, is recorded as the
\* overridden declaration; no method of the other receiver kind is recorded,
\* and without a superclass nothing is recorded.
C24_OverrideLink == [][OverrideLinked({TRUE, FALSE})]_vars

---------------------------------------------------------------------------
(* C25: the shapes of a getter and a setter. *)

\* The getter g takes one index, the setter s takes a value of the getter's
\* element type and an index of the getter's index type.
Agreeing(g, s) ==
  /\ Len(Decl[g].params) = 1
  /\ Len(Decl[s].params) = 2
  /\ ParamTypes(s)[1] = ResultType(g)
  /\ ParamTypes(s)[2] = ParamTypes(g)[1]

\* importSubscript has a getter and a setter and decides.
DecidesPair ==
  /\ At("importSubscript", "build")
  /\ Top.x # NoDecl
  /\ Top.y # NoDecl
  /\ stack' # stack

\* C25: when importSubscript has both a getter and a setter, it returns a
\* subscript only if the getter has one index and the setter has two
\* parameters, the value of the getter's element type and the index of the
\* getter's index type; otherwise it returns none, creates nothing, leaves no
\* subscript in Subscripts under the pair, and both methods stay in
\* ImportedDecls. No subscript with a setter is ever built on a getter and a
\* setter that disagree.
C25_ShapeAgreement ==
  /\ [][ DecidesPair =>
           LET g == heap[Top.x].from
               s == heap[Top.y].from
           IN /\ ret'.val # NoDecl =>
                   /\ Agreeing(g, s)
                   /\ heap'[ret'.val].kind = "subscript"
              /\ ~Agreeing(g, s) =>
                   /\ ret'.val = NoDecl
                   /\ heap' = heap
                   /\ \A k \in DOMAIN Subscripts' :
                        k = <<Top.x, Top.y>> => Subscripts'[k] = NoDecl
                   /\ ImportedDecls' = ImportedDecls
                   /\ Cached(g) /\ ImportedDecls[g] # NoDecl
                   /\ Cached(s) /\ ImportedDecls[s] # NoDecl ]_vars
  /\ [](\A id \in DOMAIN heap :
          heap[id].kind = "subscript" /\ heap[id].setter # NoDecl =>
            Agreeing(AccessorOf(heap[id].getter), AccessorOf(heap[id].setter)))

\* The import of Skew's getter is back from importSubscript without a
\* subscript: the pair was looked up in Subscripts, and both methods are
\* imported.
C25_Witness ==
  /\ At("VisitObjCMethodDecl", "special")
  /\ Top.d = "Skew.get"
  /\ ret.val = NoDecl
  /\ ~Agreeing("Skew.get", "Skew.set")
  /\ Cached("Skew.get") /\ ImportedDecls["Skew.get"] # NoDecl
  /\ Cached("Skew.set") /\ ImportedDecls["Skew.set"] # NoDecl
  /\ <<ImportedDecls["Skew.get"], ImportedDecls["Skew.set"]>> \in DOMAIN Subscripts
  /\ \A id \in DOMAIN heap : heap[id].kind # "subscript"

---------------------------------------------------------------------------
(* C26: the import of a property. *)

\* The class made for the property's container, the classes it inherits
\* from, and the extensions of all of them.
RECURSIVE SwiftSuperChain(_)
SwiftSuperChain(c) == IF c = NoDecl THEN {} ELSE {c} \cup SwiftSuperChain(heap[c].super)

\* The declarations of a kind that a qualified lookup of the property's name
\* finds on the type that owns property p, made in context dc.
FoundByName(p, dc, kind) ==
  {id \in DOMAIN heap :
     /\ heap[id].kind = kind
     /\ heap[id].name = Decl[p].ident
     /\ \E c \in SwiftSuperChain(SelfClass(dc)) :
          \/ id \in Range(heap[c].members)
          \/ \E i \in DOMAIN heap[c].extensions :
               id \in Range(heap[heap[c].extensions[i]].members)}

\* The accessor method m exists and has no import: a type of it has no
\* translation, or its container has none.
AccessorFails(m) ==
  /\ m # ""
  /\ \/ Untranslatable(m)
     \/ ~Cached(Decl[m].parent)
     \/ ImportedDecls[Decl[m].parent] = NoDecl

\* Why the property p is declined.
PropertyDeclined(p) ==
  \/ Decl[Decl[p].parent].kind = "protocol"
  \/ AccessorFails(Decl[p].getterM)
  \/ AccessorFails(Decl[p].setterM)
  \/ FoundByName(p, ImportedDecls[Decl[p].parent], "func") # {}

\* VisitObjCPropertyDecl returns.
PropertyReturns ==
  /\ stack # <<>>
  /\ Top.fn = "VisitObjCPropertyDecl"
  /\ Len(stack') < Len(stack)

\* C26: VisitObjCPropertyDecl declines a property of a protocol, a property
\* whose name a qualified lookup on the owning type finds as a function, and a
\* property whose getter or setter method exists and fails to import; every
\* other property becomes a computed variable with a getter thunk, a setter
\* thunk iff the property has a setter, and an override link to a variable of
\* its name when the lookup finds one.
C26_PropertyImport ==
  [][ PropertyReturns =>
        LET p == Top.d
            v == ret'.val
        IN IF PropertyDeclined(p)
           THEN v = NoDecl /\ heap' = heap
           ELSE /\ v # NoDecl
                /\ heap'[v].kind = "var"
                /\ heap'[v].from = p
                /\ heap'[v].name = Decl[p].ident
                /\ heap'[v].dc = ImportedDecls[Decl[p].parent]
                /\ heap'[v].getter # NoDecl
                /\ heap'[heap'[heap'[v].getter].thunkOf].from = Decl[p].getterM
                /\ heap'[v].setter # NoDecl <=> Decl[p].setterM # ""
                /\ heap'[v].setter # NoDecl =>
                     heap'[heap'[heap'[v].setter].thunkOf].from = Decl[p].setterM
                /\ IF FoundByName(p, heap'[v].dc, "var") = {}
                   THEN heap'[v].overridden = NoDecl
                   ELSE heap'[v].overridden \in FoundByName(p, heap'[v].dc, "var") ]_vars

\* The import of SubWidget's title is back with a variable without a setter
\* thunk that overrides Widget's, which has one.
C26_Witness ==
  /\ Returned
  /\ Top.d = "SubWidget.title"
  /\ ret.val # NoDecl
  /\ heap[ret.val].kind = "var"
  /\ heap[ret.val].overridden # NoDecl
  /\ heap[heap[ret.val].overridden].from = "Widget.title"
  /\ heap[heap[ret.val].overridden].setter # NoDecl
  /\ heap[ret.val].setter = NoDecl

---------------------------------------------------------------------------
(* C27: where inherited constructors come from. *)

\* The places in the member list of class s of the constructors made for an
\* initializer that neither the class's own interface nor a protocol declares.
InheritedConstructors(s) ==
  {i \in DOMAIN heap[s].members :
     LET k == heap[heap[s].members[i]]
     IN /\ k.kind = "constructor"
        /\ k.clangNode # ""
        /\ Decl[k.clangNode].parent # heap[s].clangNode
        /\ Decl[Decl[k.clangNode].parent].kind # "protocol"}

\* C27: every inherited constructor in the member list of an imported class
\* is made for a recognised initializer of a superclass or of a category of
\* a superclass whose selector neither the class nor one of its categories
\* declares, and the list holds at most one inherited constructor per
\* selector.
C27_InheritedConstructors ==
  \A s \in FinishedClasses :
    /\ \A i \in InheritedConstructors(s) :
         heap[heap[s].members[i]].clangNode \in InheritableInits(heap[s].clangNode)
    /\ \A i, j \in InheritedConstructors(s) :
         Decl[heap[heap[s].members[i]].clangNode].sel =
           Decl[heap[heap[s].members[j]].clangNode].sel => i = j

\* Twig is imported: it inherits initWithX: from Leaf, not a second time from
\* Root, and init from Root.
C27_Witness ==
  \E s \in FinishedClasses :
    /\ heap[s].clangNode = "Twig"
    /\ \E i \in InheritedConstructors(s) :
         heap[heap[s].members[i]].clangNode = "Leaf.initWithX"
    /\ \E i \in InheritedConstructors(s) :
         heap[heap[s].members[i]].clangNode = "Root.init"
    /\ Imported("Root.initWithX")

---------------------------------------------------------------------------
(* C28: the members importObjCMembers collects. *)

\* importObjCMembers returns its list.
MembersReturn ==
  /\ stack # <<>>
  /\ Top.fn = "importObjCMembers"
  /\ Len(stack') < Len(stack)

\* The places in list L of the plain methods made for the Clang method m.
FuncsOf(L, m) ==
  {i \in DOMAIN L : /\ heap[L[i]].kind = "func"
                    /\ heap[L[i]].thunkOf = NoDecl
                    /\ heap[L[i]].from = m}

\* The places in list L of the constructors made for the initializer m.
ConstructorsOf(L, m) ==
  {i \in DOMAIN L : heap[L[i]].kind = "constructor" /\ heap[L[i]].clangNode = m}

\* The subscripts of context dc that have m as the method of an accessor.
SubscriptsWith(m, dc) ==
  {id \in DOMAIN heap : /\ heap[id].kind = "subscript"
                        /\ heap[id].dc = dc
                        /\ m \in {AccessorOf(heap[id].getter), AccessorOf(heap[id].setter)}}

\* The Clang member a declaration of the list stands for.
SourceOf(id) == IF heap[id].kind = "constructor" THEN heap[id].clangNode ELSE heap[id].from

\* The place of member m among the declarations of container d.
PlaceIn(d, m) == CHOOSE i \in DOMAIN MembersOf(d) : MembersOf(d)[i] = m

\* C28: the list importObjCMembers returns for a container follows, after
\* the 'Self' a protocol starts with, the order of the container's members; the accessor of a property that is imported is
\* not in it; a recognised initializer with a constructor is in it as the
\* constructor only; an accessor of a subscript is in it and so is the
\* subscript; every other imported member is in it; and no constructor or
\* subscript is in it twice.
C28_MemberList ==
  [][ MembersReturn =>
        LET L == ret'.mem
            d == Top.d
            methods == {m \in Range(MembersOf(d)) : Decl[m].kind = "method"}
            plain == {i \in DOMAIN L : heap[L[i]].kind \notin {"subscript", "associatedtype"}}
        IN /\ \A i \in plain : SourceOf(L[i]) \in Range(MembersOf(d))
           /\ \A i, j \in plain :
                i < j => PlaceIn(d, SourceOf(L[i])) < PlaceIn(d, SourceOf(L[j]))
           /\ \A m \in Range(MembersOf(d)) \ methods :
                Imported(m) => \E i \in DOMAIN L : heap[L[i]].from = m
           /\ \A m \in methods :
                IF ~Imported(m) THEN FuncsOf(L, m) = {} /\ ConstructorsOf(L, m) = {}
                ELSE IF Imported(Decl[m].prop) THEN FuncsOf(L, m) = {}
                ELSE IF ConstructorsOf(L, m) # {}
                THEN /\ Decl[m].family = "init" /\ InitRule(m)
                     /\ FuncsOf(L, m) = {}
                ELSE /\ FuncsOf(L, m) # {}
                     /\ SubscriptsWith(m, Top.dc) # {} =>
                          \E i \in DOMAIN L : L[i] \in SubscriptsWith(m, Top.dc)
           /\ \A i, j \in DOMAIN L :
                (L[i] = L[j] /\ heap[L[i]].kind \in {"constructor", "subscript"}) => i = j ]_vars

\* importObjCMembers is about to return Widget's list, which holds the
\* variables of both properties and no accessor.
C28_Witness ==
  /\ At("importObjCMembers", "start")
  /\ Top.d = "Widget"
  /\ Top.i > Len(MembersOf("Widget"))
  /\ Len(Top.mem) = 2
  /\ \A i \in DOMAIN Top.mem : heap[Top.mem[i]].kind = "var"
  /\ Imported("Widget.getTitle") /\ Imported("Widget.setTitle")

---------------------------------------------------------------------------
(* C29: declarations that depend on a forward declaration. *)

\* What the import of d needs first: the class of a category, the superclass
\* of a class, the container of a member; "" for none.
Dependency(d) ==
  IF Decl[d].kind = "category" THEN Decl[d].cls
  ELSE IF Decl[d].kind = "interface" THEN Decl[d].super
  ELSE IF Decl[d].kind \in {"field", "method", "property", "enumconstant"}
  THEN Decl[d].parent
  ELSE ""

\* d depends on a declaration whose definition may come later.
ForwardDependent(d) ==
  /\ Dependency(d) # ""
  /\ Dependency(d) \in Decls
  /\ Decl[Dependency(d)].late

\* importDecl has the visitor's null result for d, which was visited while
\* what it depends on had no definition.
FailsOnForward(d) ==
  /\ At("importDecl", "visited")
  /\ Top.d = d
  /\ ret.val = NoDecl
  /\ ForwardDependent(d)
  /\ ~HasDefinition(Dependency(d))
  /\ HasDefinition(d)
  /\ stack' # stack

\* C29: when the import of a declaration fails while the class of the
\* category, the superclass of the class or the container of the member has
\* no definition, importDecl records a null entry for it, and the entry stays
\* null from then on, so that importDecl keeps returning null for it after
\* the definition has become visible and has been imported.
C29_DependentStaysDeclined ==
  /\ [][\A d \in Decls :
          FailsOnForward(d) => Cached(d)' /\ ImportedDecls'[d] = NoDecl]_vars
  /\ [][\A d \in Decls :
          (ForwardDependent(d) /\ Cached(d) /\ ImportedDecls[d] = NoDecl) =>
            Cached(d)' /\ ImportedDecls'[d] = NoDecl]_vars
  /\ [](\A d \in Decls :
          (ForwardDependent(d) /\ Returned /\ Top.d = d
             /\ Cached(d) /\ ImportedDecls[d] = NoDecl) => ret.val = NoDecl)

---------------------------------------------------------------------------
(* C30: mirrored imports and the main cache. *)

\* VisitObjCMethodDecl, called by importMirroredDecl, records its result.
MirroredRecord ==
  /\ At("VisitObjCMethodDecl", "record")
  /\ Len(stack) > 1
  /\ stack[Len(stack) - 1].fn = "importMirroredDecl"
  /\ stack' # stack

\* C30: a mirrored import leaves ImportedDecls as it is, and the entry of
\* ImportedDecls for a method of a protocol, when it holds a declaration,
\* holds one whose context is the protocol imported for the method's owner,
\* never a copy made in a class.
C30_MainCacheUntouched ==
  /\ [][MirroredRecord => ImportedDecls' = ImportedDecls]_vars
  /\ [](\A m \in DOMAIN ImportedDecls :
          ( /\ Decl[m].kind = "method"
            /\ Decl[Decl[m].parent].kind = "protocol"
            /\ ImportedDecls[m] # NoDecl ) =>
            /\ Imported(Decl[m].parent)
            /\ heap[ImportedDecls[m]].dc = ImportedDecls[Decl[m].parent])

========================================================================
